---------------------------- MODULE Spec2Model ----------------------------
(***************************************************************************)
(* Model of scripts/mitmproxy-addon.py: the protobuf wire scanner          *)
(* (parse_varint, parse_proto_fields), the tool-call and interaction       *)
(* update decoders, and the per-stream stream modifier (modify_stream).    *)
(*                                                                         *)
(* Representation of Python values                                         *)
(*   bytes          a sequence of naturals 0..255; Python's data[i] is     *)
(*                  data[i+1] here.                                        *)
(*   int (varint)   Python integers are unbounded, TLC's are 32 bits, so a *)
(*                  value decoded from a varint is kept as its base-128    *)
(*                  digits, least significant first, without high zero     *)
(*                  digits (<<>> is 0).  parse_varint shifts by multiples  *)
(*                  of 7, so the 7-bit group of byte i is digit i.         *)
(*   int (offsets)  offsets and lengths of buffers are TLC naturals.       *)
(*   str (decoded)  [t |-> "str", v |-> code points].                      *)
(*   str (literal)  a TLA+ string.                                         *)
(*   dict           a function whose domain is the set of keys.            *)
(*   exception      a function that may let an exception escape returns    *)
(*                  [exc |-> TRUE/FALSE, v |-> value].                     *)
(***************************************************************************)
EXTENDS Integers, Sequences, FiniteSets, TLC

VARIABLES
    \* ---- arguments and result of one call of a decode function
    data,       \* the bytes argument
    offset,     \* the offset argument (parse_varint)
    op,         \* the function that was called, "none" before the call
    ret,        \* what it returned
    gen,        \* history: how the input buffer was built
    \* ---- the flows (one per response) and their transport
    metadata,   \* flow.metadata of each flow, a dict
    phase,      \* where each flow is: "idle" (no request yet), "headers",
                \* "streaming", "buffered", "done", or "closed" (no flow)
    wire,       \* bytes of the response body not yet delivered
    fed,        \* history: the chunks delivered so far, concatenated
    emitted,    \* history: the bytes of the frames the frame loop took
    forwarded,  \* history: the bytes the stream modifier returned to the proxy
    \* ---- module state
    tool_field_map, \* the dict that the module name TOOL_FIELD_MAP is bound to
    \* ---- the addon object and its output
    addon,      \* the fields of the CursorAnalyzer that the handlers use
    printed     \* the lines that the last call of a handler printed or logged

callVars == <<data, offset, op, ret, gen>>
streamVars == <<metadata, phase, wire, fed, emitted, forwarded>>
tableVars == <<tool_field_map>>
addonVars == <<addon, printed>>
vars == <<data, offset, op, ret, gen, metadata, phase, wire, fed, emitted,
          forwarded, tool_field_map, addon, printed>>

-----------------------------------------------------------------------------
(* Let(e, F) is F(e) with e evaluated once: LET v == e IN F(v).            *)

Let(e, F(_)) == CHOOSE r \in {F(v) : v \in {e}} : TRUE

-----------------------------------------------------------------------------
(* Python integers decoded from varints: base-128 digits, low digit first. *)

Norm(ds) ==
    LET nz == {i \in 1..Len(ds) : ds[i] # 0}
    IN  IF nz = {} THEN <<>>
        ELSE SubSeq(ds, 1, CHOOSE i \in nz : \A j \in nz : j <= i)

RECURSIVE PyInt(_)
PyInt(n) == IF n = 0 THEN <<>> ELSE <<n % 128>> \o PyInt(n \div 128)

\* v < 2^28: the value is a TLC natural (every buffer of the model is shorter);
\* ToNat is that natural.
Fits(v) == Len(v) <= 4

ToNat(v) ==
    LET D(i) == IF i <= Len(v) THEN v[i] ELSE 0
    IN  D(1) + 128 * D(2) + 16384 * D(3) + 2097152 * D(4)

\* tag & 0x07
And7(v) == IF v = <<>> THEN 0 ELSE v[1] % 8

\* tag >> 3: digit i of the result is bits 3..6 of digit i and bits 0..2 of digit i+1
Shr3(v) ==
    Norm([i \in 1..Len(v) |->
            (v[i] \div 8) + (IF i < Len(v) THEN (v[i + 1] % 8) * 16 ELSE 0)])

\* str(n) of a Python int: decimal digits, by long division by 10
RECURSIVE DivMod10(_, _, _)
DivMod10(v, i, acc) ==
    \* divides digits i..1 (high to low); acc = <<quotient digits (low first), rem>>
    IF i = 0 THEN acc
    ELSE DivMod10(v, i - 1, <<<<(acc[2] * 128 + v[i]) \div 10>> \o acc[1],
                              (acc[2] * 128 + v[i]) % 10>>)

RECURSIVE DecStr(_)
DecStr(v) ==
    Let(DivMod10(v, Len(v), <<<<>>, 0>>), LAMBDA qr :
        IF Norm(qr[1]) = <<>> THEN ToString(qr[2])
        ELSE DecStr(Norm(qr[1])) \o ToString(qr[2]))

-----------------------------------------------------------------------------
(* parse_varint(data, offset) -> (value, new_offset)                       *)

\* the while loop; groups holds (byte & 0x7F) of the bytes read: result |= g << shift
RECURSIVE parse_varint_loop(_, _, _)
parse_varint_loop(d, off, groups) ==
    IF off < Len(d)
    THEN LET byte == d[off + 1]
             g2   == Append(groups, byte % 128)
         IN  IF byte \div 128 = 0
             THEN <<Norm(g2), off + 1>>
             ELSE parse_varint_loop(d, off + 1, g2)
    ELSE <<Norm(groups), off>>

\* the same loop with the increment of offset after the break test
RECURSIVE parse_varint_loop_lateinc(_, _, _)
parse_varint_loop_lateinc(d, off, groups) ==
    IF off < Len(d)
    THEN LET byte == d[off + 1]
             g2   == Append(groups, byte % 128)
         IN  IF byte \div 128 = 0
             THEN <<Norm(g2), off>>
             ELSE parse_varint_loop_lateinc(d, off + 1, g2)
    ELSE <<Norm(groups), off>>

parse_varint_lateinc(d, off) == parse_varint_loop_lateinc(d, off, <<>>)

\* the same loop giving up its accumulator when the buffer ends inside the varint
RECURSIVE parse_varint_loop_strict(_, _, _)
parse_varint_loop_strict(d, off, groups) ==
    IF off < Len(d)
    THEN LET byte == d[off + 1]
             g2   == Append(groups, byte % 128)
         IN  IF byte \div 128 = 0
             THEN <<Norm(g2), off + 1>>
             ELSE parse_varint_loop_strict(d, off + 1, g2)
    ELSE <<<<>>, off>>

parse_varint_strict(d, off) == parse_varint_loop_strict(d, off, <<>>)

parse_varint(d, off) == parse_varint_loop(d, off, <<>>)

-----------------------------------------------------------------------------
(* parse_proto_fields(data) -> list of (field_number, wire_type, value)    *)

\* the iteration with a 64-bit field skipped as if it were 4 bytes long
ScanIter_fixed64as4(d, off, fields) ==
    Let(parse_varint(d, off), LAMBDA t :
    LET tag          == t[1]
        o1           == t[2]
        field_number == Shr3(tag)
        wire_type    == And7(tag)
    IN  CASE wire_type = 0 ->
               Let(parse_varint(d, o1), LAMBDA r :
                   [offset |-> r[2], brk |-> FALSE,
                    fields |-> Append(fields, <<field_number, wire_type, r[1]>>)])
          [] wire_type = 2 ->
               Let(parse_varint(d, o1), LAMBDA r :
               LET length == r[1]
                   o2     == r[2]
               IN  IF ~Fits(length) \/ o2 + ToNat(length) > Len(d)
                   THEN [offset |-> o2, brk |-> TRUE, fields |-> fields]
                   ELSE [offset |-> o2 + ToNat(length), brk |-> FALSE,
                         fields |-> Append(fields,
                            <<field_number, wire_type,
                              SubSeq(d, o2 + 1, o2 + ToNat(length))>>)])
          [] wire_type = 1 -> [offset |-> o1 + 4, brk |-> FALSE, fields |-> fields]
          [] wire_type = 5 -> [offset |-> o1 + 4, brk |-> FALSE, fields |-> fields]
          [] OTHER -> [offset |-> o1, brk |-> TRUE, fields |-> fields])

\* the iteration without `if offset + length > len(data): break`: the slice
\* data[offset:offset + length] is then the bytes that remain
ScanIter_nolengthcheck(d, off, fields) ==
    Let(parse_varint(d, off), LAMBDA t :
    LET tag          == t[1]
        o1           == t[2]
        field_number == Shr3(tag)
        wire_type    == And7(tag)
    IN  CASE wire_type = 0 ->
               Let(parse_varint(d, o1), LAMBDA r :
                   [offset |-> r[2], brk |-> FALSE,
                    fields |-> Append(fields, <<field_number, wire_type, r[1]>>)])
          [] wire_type = 2 ->
               Let(parse_varint(d, o1), LAMBDA r :
               LET length == r[1]
                   o2     == r[2]
               IN  IF ~Fits(length) \/ o2 + ToNat(length) > Len(d)
                   THEN [offset |-> Len(d), brk |-> FALSE,
                         fields |-> Append(fields,
                            <<field_number, wire_type, SubSeq(d, o2 + 1, Len(d))>>)]
                   ELSE [offset |-> o2 + ToNat(length), brk |-> FALSE,
                         fields |-> Append(fields,
                            <<field_number, wire_type,
                              SubSeq(d, o2 + 1, o2 + ToNat(length))>>)])
          [] wire_type = 1 -> [offset |-> o1 + 8, brk |-> FALSE, fields |-> fields]
          [] wire_type = 5 -> [offset |-> o1 + 4, brk |-> FALSE, fields |-> fields]
          [] OTHER -> [offset |-> o1, brk |-> TRUE, fields |-> fields])

\* the iteration that goes on after a tag of another wire type
ScanIter_skipunknown(d, off, fields) ==
    Let(parse_varint(d, off), LAMBDA t :
    LET tag          == t[1]
        o1           == t[2]
        field_number == Shr3(tag)
        wire_type    == And7(tag)
    IN  CASE wire_type = 0 ->
               Let(parse_varint(d, o1), LAMBDA r :
                   [offset |-> r[2], brk |-> FALSE,
                    fields |-> Append(fields, <<field_number, wire_type, r[1]>>)])
          [] wire_type = 2 ->
               Let(parse_varint(d, o1), LAMBDA r :
               LET length == r[1]
                   o2     == r[2]
               IN  IF ~Fits(length) \/ o2 + ToNat(length) > Len(d)
                   THEN [offset |-> o2, brk |-> TRUE, fields |-> fields]
                   ELSE [offset |-> o2 + ToNat(length), brk |-> FALSE,
                         fields |-> Append(fields,
                            <<field_number, wire_type,
                              SubSeq(d, o2 + 1, o2 + ToNat(length))>>)])
          [] wire_type = 1 -> [offset |-> o1 + 8, brk |-> FALSE, fields |-> fields]
          [] wire_type = 5 -> [offset |-> o1 + 4, brk |-> FALSE, fields |-> fields]
          [] OTHER -> [offset |-> o1, brk |-> FALSE, fields |-> fields])

\* the iteration that skips 8 bytes for a fixed32 field
ScanIter_fixed32as8(d, off, fields) ==
    Let(parse_varint(d, off), LAMBDA t :
    LET tag          == t[1]
        o1           == t[2]
        field_number == Shr3(tag)
        wire_type    == And7(tag)
    IN  CASE wire_type = 0 ->
               Let(parse_varint(d, o1), LAMBDA r :
                   [offset |-> r[2], brk |-> FALSE,
                    fields |-> Append(fields, <<field_number, wire_type, r[1]>>)])
          [] wire_type = 2 ->
               Let(parse_varint(d, o1), LAMBDA r :
               LET length == r[1]
                   o2     == r[2]
               IN  IF ~Fits(length) \/ o2 + ToNat(length) > Len(d)
                   THEN [offset |-> o2, brk |-> TRUE, fields |-> fields]
                   ELSE [offset |-> o2 + ToNat(length), brk |-> FALSE,
                         fields |-> Append(fields,
                            <<field_number, wire_type,
                              SubSeq(d, o2 + 1, o2 + ToNat(length))>>)])
          [] wire_type = 1 -> [offset |-> o1 + 8, brk |-> FALSE, fields |-> fields]
          [] wire_type = 5 -> [offset |-> o1 + 8, brk |-> FALSE, fields |-> fields]
          [] OTHER -> [offset |-> o1, brk |-> TRUE, fields |-> fields])

\* one iteration of `while offset < len(data)`; brk: the loop was left by break
ScanIter(d, off, fields) ==
    Let(parse_varint(d, off), LAMBDA t :
    LET tag          == t[1]
        o1           == t[2]
        field_number == Shr3(tag)
        wire_type    == And7(tag)
    IN  CASE wire_type = 0 ->
               Let(parse_varint(d, o1), LAMBDA r :
                   [offset |-> r[2], brk |-> FALSE,
                    fields |-> Append(fields, <<field_number, wire_type, r[1]>>)])
          [] wire_type = 2 ->
               Let(parse_varint(d, o1), LAMBDA r :
               LET length == r[1]
                   o2     == r[2]
               IN  IF ~Fits(length) \/ o2 + ToNat(length) > Len(d)
                   THEN [offset |-> o2, brk |-> TRUE, fields |-> fields]
                   ELSE [offset |-> o2 + ToNat(length), brk |-> FALSE,
                         fields |-> Append(fields,
                            <<field_number, wire_type,
                              SubSeq(d, o2 + 1, o2 + ToNat(length))>>)])
          [] wire_type = 1 -> [offset |-> o1 + 8, brk |-> FALSE, fields |-> fields]
          [] wire_type = 5 -> [offset |-> o1 + 4, brk |-> FALSE, fields |-> fields]
          [] OTHER -> [offset |-> o1, brk |-> TRUE, fields |-> fields])

RECURSIVE parse_proto_fields_loop(_, _, _)
parse_proto_fields_loop(d, off, fields) ==
    IF off < Len(d)
    THEN Let(ScanIter(d, off, fields), LAMBDA it :
             IF it.brk THEN it.fields
             ELSE parse_proto_fields_loop(d, it.offset, it.fields))
    ELSE fields

parse_proto_fields(d) == parse_proto_fields_loop(d, 0, <<>>)

-----------------------------------------------------------------------------
(* bytes.decode('utf-8') and bytes.hex()                                   *)

Cont(b) == b >= 128 /\ b <= 191

\* strict UTF-8: [ok |-> FALSE] stands for UnicodeDecodeError
RECURSIVE utf8_loop(_, _, _)
utf8_loop(bs, i, acc) ==
    IF i > Len(bs) THEN [ok |-> TRUE, s |-> acc]
    ELSE
    LET b0 == bs[i]
        has(k) == i + k <= Len(bs)
        b1 == bs[i + 1]
        b2 == bs[i + 2]
        b3 == bs[i + 3]
    IN  IF b0 < 128 THEN utf8_loop(bs, i + 1, Append(acc, b0))
        ELSE IF b0 >= 194 /\ b0 <= 223 /\ has(1) /\ Cont(b1)
        THEN utf8_loop(bs, i + 2, Append(acc, (b0 - 192) * 64 + (b1 - 128)))
        ELSE IF b0 >= 224 /\ b0 <= 239 /\ has(2) /\ Cont(b1) /\ Cont(b2)
                /\ (b0 = 224 => b1 >= 160) /\ (b0 = 237 => b1 <= 159)
        THEN utf8_loop(bs, i + 3,
                 Append(acc, (b0 - 224) * 4096 + (b1 - 128) * 64 + (b2 - 128)))
        ELSE IF b0 >= 240 /\ b0 <= 244 /\ has(3) /\ Cont(b1) /\ Cont(b2) /\ Cont(b3)
                /\ (b0 = 240 => b1 >= 144) /\ (b0 = 244 => b1 <= 143)
        THEN utf8_loop(bs, i + 4,
                 Append(acc, (b0 - 240) * 262144 + (b1 - 128) * 4096
                             + (b2 - 128) * 64 + (b3 - 128)))
        ELSE [ok |-> FALSE, s |-> <<>>]

decode_utf8(bs) == utf8_loop(bs, 1, <<>>)

Str(cps) == [t |-> "str", v |-> cps]

HexDigits == <<"0", "1", "2", "3", "4", "5", "6", "7",
               "8", "9", "a", "b", "c", "d", "e", "f">>

RECURSIVE hex_from(_, _)
hex_from(bs, i) ==
    IF i > Len(bs) THEN ""
    ELSE HexDigits[(bs[i] \div 16) + 1] \o HexDigits[(bs[i] % 16) + 1]
         \o hex_from(bs, i + 1)

hex(bs) == hex_from(bs, 1)

-----------------------------------------------------------------------------
(* dict helpers, and the module-level tables                               *)

\* d.get(k, default) for a dict whose keys are small ints and a Python int k
GetInt(d, k, default) ==
    IF Fits(k) /\ ToNat(k) \in DOMAIN d THEN d[ToNat(k)] ELSE default

\* d[k] = v
Put(d, k, v) == (k :> v) @@ d

EmptyDict == [k \in {} |-> 0]

None == [t |-> "None"]

FIELD_NAMES ==
    (1 :> "text_delta") @@ (2 :> "tool_call_started") @@ (3 :> "tool_call_completed")
    @@ (4 :> "thinking_delta") @@ (7 :> "partial_tool_call") @@ (8 :> "token_delta")
    @@ (13 :> "heartbeat") @@ (14 :> "turn_ended")

TOOL_FIELD_MAP ==
    (1 :> "bash") @@ (3 :> "delete") @@ (4 :> "glob") @@ (5 :> "grep")
    @@ (8 :> "read") @@ (9 :> "todowrite") @@ (10 :> "todoread") @@ (12 :> "edit")
    @@ (13 :> "list") @@ (14 :> "read_lints") @@ (15 :> "mcp")
    @@ (16 :> "semantic_search") @@ (17 :> "create_plan") @@ (18 :> "web_search")
    @@ (19 :> "task") @@ (20 :> "list_mcp_resources") @@ (21 :> "read_mcp_resource")
    @@ (22 :> "apply_diff") @@ (23 :> "ask_question") @@ (24 :> "webfetch")
    @@ (25 :> "switch_mode") @@ (26 :> "exa_search") @@ (27 :> "exa_fetch")
    @@ (28 :> "generate_image") @@ (29 :> "record_screen") @@ (30 :> "computer_use")

TOOL_ARG_SCHEMA ==
    [bash |-> <<"command", "description", "working_directory">>,
     delete |-> <<"filePath">>,
     glob |-> <<"pattern", "path">>,
     grep |-> <<"pattern", "path", "include">>,
     read |-> <<"filePath", "offset", "limit">>,
     todowrite |-> <<"todos">>,
     todoread |-> <<>>,
     edit |-> <<"filePath", "oldString", "newString", "replaceAll">>,
     list |-> <<"path", "ignore">>,
     read_lints |-> <<>>,
     mcp |-> <<"provider_identifier", "tool_name", "tool_call_id", "args">>,
     semantic_search |-> <<"query", "path">>,
     create_plan |-> <<"plan">>,
     web_search |-> <<"query">>,
     task |-> <<"description", "prompt", "subagent_type">>,
     list_mcp_resources |-> <<"provider_identifier">>,
     read_mcp_resource |-> <<"provider_identifier", "uri">>,
     apply_diff |-> <<"filePath", "diff">>,
     ask_question |-> <<"question">>,
     webfetch |-> <<"url", "format">>,
     switch_mode |-> <<"mode">>,
     exa_search |-> <<"query">>,
     exa_fetch |-> <<"url">>,
     generate_image |-> <<"prompt">>,
     record_screen |-> <<"duration">>,
     computer_use |-> <<"action", "text", "coordinate">>]

-----------------------------------------------------------------------------
(* parse_tool_call(data) -> {"tool_name": ..., "args": {...}}              *)

IsLenDelim(f, n) == f[1] = PyInt(n) /\ f[2] = 2

\* index of the first (last) element of fields that satisfies P, 0 when none does
FirstIdx(fields, P(_)) ==
    LET S == {i \in 1..Len(fields) : P(fields[i])}
    IN  IF S = {} THEN 0 ELSE CHOOSE i \in S : \A j \in S : i <= j

LastIdx(fields, P(_)) ==
    LET S == {i \in 1..Len(fields) : P(fields[i])}
    IN  IF S = {} THEN 0 ELSE CHOOSE i \in S : \A j \in S : i >= j

\* `tool_name and wt == 2`
IsSelector(f) == GetInt(tool_field_map, f[1], "") # "" /\ f[2] = 2

\* lines 362-372: the string of a length-delimited argument, [ok |-> FALSE] when
\* the try block is left by an exception
arg_string(aval) ==
    Let(parse_proto_fields(aval), LAMBDA nested :
    Let(FirstIdx(nested, LAMBDA f : IsLenDelim(f, 1)), LAMBDA k :
        IF k # 0 THEN decode_utf8(nested[k][3]) ELSE decode_utf8(aval)))

\* arg_schema.get(afn, f"field_{afn}")
arg_name(arg_schema, afn) == GetInt(arg_schema, afn, "field_" \o DecStr(afn))

\* the body without the coercion of replaceAll: every varint is kept as an int
tool_arg_nocoerce(arg_schema, args, f) ==
    Let(arg_name(arg_schema, f[1]), LAMBDA name :
        IF f[2] = 2
        THEN Let(arg_string(f[3]), LAMBDA r :
                 IF r.ok THEN Put(args, name, Str(r.s)) ELSE args)
        ELSE IF f[2] = 0
        THEN Put(args, name, [t |-> "int", v |-> f[3]])
        ELSE args)

\* the body of the loop over arg_fields, for the field f
tool_arg(arg_schema, args, f) ==
    Let(arg_name(arg_schema, f[1]), LAMBDA name :
        IF f[2] = 2
        THEN Let(arg_string(f[3]), LAMBDA r :
                 IF r.ok THEN Put(args, name, Str(r.s)) ELSE args)
        ELSE IF f[2] = 0
        THEN IF name = "replaceAll"
             THEN Put(args, name, [t |-> "bool", v |-> (f[3] = PyInt(1))])
             ELSE Put(args, name, [t |-> "int", v |-> f[3]])
        ELSE args)

\* the loop with one try around it: the first argument that fails to decode ends
\* it
RECURSIVE tool_args_loop_abort(_, _, _, _)
tool_args_loop_abort(arg_fields, i, arg_schema, args) ==
    IF i > Len(arg_fields) THEN args
    ELSE IF arg_fields[i][2] = 2 /\ ~arg_string(arg_fields[i][3]).ok THEN args
    ELSE tool_args_loop_abort(arg_fields, i + 1, arg_schema,
                              tool_arg(arg_schema, args, arg_fields[i]))

RECURSIVE tool_args_loop(_, _, _, _)
tool_args_loop(arg_fields, i, arg_schema, args) ==
    IF i > Len(arg_fields) THEN args
    ELSE tool_args_loop(arg_fields, i + 1, arg_schema,
                        tool_arg(arg_schema, args, arg_fields[i]))

\* the body with the argument schema of bash for every tool
tool_call_at_bashschema(fields, k) ==
    IF k = 0 THEN [tool_name |-> "unknown", args |-> EmptyDict]
    ELSE Let(GetInt(tool_field_map, fields[k][1], ""), LAMBDA tool_name :
         Let(parse_proto_fields(fields[k][3]), LAMBDA arg_fields :
             [tool_name |-> tool_name,
              args |-> tool_args_loop(arg_fields, 1, TOOL_ARG_SCHEMA["bash"],
                                      EmptyDict)]))

\* the body of `if tool_name and wt == 2` for the field at index k (0: no field)
\* info without the 'unknown' marker of line 347
tool_call_at_nomarker(fields, k) ==
    IF k = 0 THEN [tool_name |-> "", args |-> EmptyDict]
    ELSE Let(GetInt(tool_field_map, fields[k][1], ""), LAMBDA tool_name :
         Let(parse_proto_fields(fields[k][3]), LAMBDA arg_fields :
             [tool_name |-> tool_name,
              args |-> tool_args_loop(arg_fields, 1, TOOL_ARG_SCHEMA[tool_name],
                                      EmptyDict)]))

tool_call_at(fields, k) ==
    IF k = 0 THEN [tool_name |-> "unknown", args |-> EmptyDict]
    ELSE Let(GetInt(tool_field_map, fields[k][1], ""), LAMBDA tool_name :
         Let(parse_proto_fields(fields[k][3]), LAMBDA arg_fields :
             [tool_name |-> tool_name,
              args |-> tool_args_loop(arg_fields, 1, TOOL_ARG_SCHEMA[tool_name],
                                      EmptyDict)]))

\* the loop without its `break`: the last selector field decides
parse_tool_call_nobreak(d) ==
    Let(parse_proto_fields(d), LAMBDA fields :
        [exc |-> FALSE, v |-> tool_call_at(fields, LastIdx(fields, IsSelector))])

\* the loop over fields ends at the first selector field (`break`)
parse_tool_call(d) ==
    Let(parse_proto_fields(d), LAMBDA fields :
        [exc |-> FALSE, v |-> tool_call_at(fields, FirstIdx(fields, IsSelector))])

-----------------------------------------------------------------------------
(* parse_tool_call_info, parse_partial_tool_call                           *)

\* try: info[key] = val.decode('utf-8') / except: pass
put_decoded(info, key, val) ==
    Let(decode_utf8(val), LAMBDA r : IF r.ok THEN Put(info, key, Str(r.s)) ELSE info)

\* lines 396-411: the body of the loop for the field f. abort: an exception
\* reached the except clause of the function, which returns info as it is
tool_call_info_field(info, f) ==
    IF IsLenDelim(f, 1)
    THEN [abort |-> FALSE, info |-> put_decoded(info, "call_id", f[3])]
    ELSE IF IsLenDelim(f, 2)
    THEN Let(parse_tool_call(f[3]), LAMBDA tool_info :
             IF tool_info.exc THEN [abort |-> TRUE, info |-> info]
             ELSE [abort |-> FALSE,
                   info |-> Put(Put(info, "tool_name", tool_info.v.tool_name),
                                "args", tool_info.v.args)])
    ELSE IF IsLenDelim(f, 3)
    THEN [abort |-> FALSE, info |-> put_decoded(info, "model_call_id", f[3])]
    ELSE [abort |-> FALSE, info |-> info]

RECURSIVE tool_call_info_loop(_, _, _)
tool_call_info_loop(fields, i, info) ==
    IF i > Len(fields) THEN info
    ELSE Let(tool_call_info_field(info, fields[i]), LAMBDA st :
             IF st.abort THEN st.info
             ELSE tool_call_info_loop(fields, i + 1, st.info))

\* the function without its try blocks: a call_id or model_call_id that is not
\* UTF-8 leaves it by UnicodeDecodeError
parse_tool_call_info_unguarded(d) ==
    Let(parse_proto_fields(d), LAMBDA fields :
        IF \E i \in 1..Len(fields) :
               /\ IsLenDelim(fields[i], 1) \/ IsLenDelim(fields[i], 3)
               /\ ~decode_utf8(fields[i][3]).ok
        THEN [exc |-> TRUE, v |-> EmptyDict]
        ELSE [exc |-> FALSE, v |-> tool_call_info_loop(fields, 1, EmptyDict)])

parse_tool_call_info(d) ==
    Let(parse_proto_fields(d), LAMBDA fields :
        [exc |-> FALSE, v |-> tool_call_info_loop(fields, 1, EmptyDict)])

\* lines 429-448
\* the body with the field numbers of parse_tool_call_info: args kept, and
\* model_call_id taken from the field 3
partial_tool_call_field_asinfo(info, f) ==
    IF IsLenDelim(f, 1)
    THEN [abort |-> FALSE, info |-> put_decoded(info, "call_id", f[3])]
    ELSE IF IsLenDelim(f, 2)
    THEN Let(parse_tool_call(f[3]), LAMBDA tool_info :
             IF tool_info.exc THEN [abort |-> TRUE, info |-> info]
             ELSE [abort |-> FALSE,
                   info |-> Put(Put(info, "tool_name", tool_info.v.tool_name),
                                "args", tool_info.v.args)])
    ELSE IF IsLenDelim(f, 3)
    THEN [abort |-> FALSE, info |-> put_decoded(info, "model_call_id", f[3])]
    ELSE [abort |-> FALSE, info |-> info]

partial_tool_call_field(info, f) ==
    IF IsLenDelim(f, 1)
    THEN [abort |-> FALSE, info |-> put_decoded(info, "call_id", f[3])]
    ELSE IF IsLenDelim(f, 2)
    THEN Let(parse_tool_call(f[3]), LAMBDA tool_info :
             IF tool_info.exc THEN [abort |-> TRUE, info |-> info]
             ELSE [abort |-> FALSE,
                   info |-> Put(info, "tool_name", tool_info.v.tool_name)])
    ELSE IF IsLenDelim(f, 3)
    THEN [abort |-> FALSE, info |-> put_decoded(info, "args_delta", f[3])]
    ELSE IF IsLenDelim(f, 4)
    THEN [abort |-> FALSE, info |-> put_decoded(info, "model_call_id", f[3])]
    ELSE [abort |-> FALSE, info |-> info]

RECURSIVE partial_tool_call_loop(_, _, _)
partial_tool_call_loop(fields, i, info) ==
    IF i > Len(fields) THEN info
    ELSE Let(partial_tool_call_field(info, fields[i]), LAMBDA st :
             IF st.abort THEN st.info
             ELSE partial_tool_call_loop(fields, i + 1, st.info))

parse_partial_tool_call(d) ==
    Let(parse_proto_fields(d), LAMBDA fields :
        [exc |-> FALSE, v |-> partial_tool_call_loop(fields, 1, EmptyDict)])

-----------------------------------------------------------------------------
(* parse_agent_message_detailed(data) -> list of events                    *)

\* the body without `if text`: an empty text is an event too
text_event_keepempty(results, f, field_name) ==
    IF IsLenDelim(f, 1)
    THEN Let(decode_utf8(f[3]), LAMBDA r :
             IF r.ok
             THEN Append(results, [type |-> field_name, content |-> Str(r.s)])
             ELSE results)
    ELSE results

\* lines 233-243: one event per field 1 of the wrapper whose text decodes and is
\* not empty
text_event(results, f, field_name) ==
    IF IsLenDelim(f, 1)
    THEN Let(decode_utf8(f[3]), LAMBDA r :
             IF r.ok /\ r.s # <<>>
             THEN Append(results, [type |-> field_name, content |-> Str(r.s)])
             ELSE results)
    ELSE results

RECURSIVE text_events(_, _, _, _)
text_events(inner_fields, i, field_name, results) ==
    IF i > Len(inner_fields) THEN results
    ELSE text_events(inner_fields, i + 1, field_name,
                     text_event(results, inner_fields[i], field_name))

\* the body that gives up the message at a field number outside FIELD_NAMES
update_field_stopatgap(results, f) ==
    IF GetInt(FIELD_NAMES, f[1], "") = ""
    THEN [abort |-> TRUE, results |-> results]
    ELSE IF f[1] = PyInt(13)
    THEN [abort |-> FALSE,
          results |-> Append(results, [type |-> "heartbeat", content |-> None])]
    ELSE IF f[1] = PyInt(14)
    THEN [abort |-> FALSE,
          results |-> Append(results, [type |-> "turn_ended", content |-> None])]
    ELSE IF f[1] \in {PyInt(1), PyInt(4), PyInt(8)} /\ f[2] = 2
    THEN [abort |-> FALSE,
          results |-> text_events(parse_proto_fields(f[3]), 1,
                                  FIELD_NAMES[ToNat(f[1])], results)]
    ELSE [abort |-> FALSE, results |-> results]

\* lines 227-275: the body of the loop over the fields of one InteractionUpdate,
\* for the field f. abort: an exception reached the except clause of the function
update_field(results, f) ==
    LET ufn   == f[1]
        uwt   == f[2]
        uval  == f[3]
        is(n) == ufn = PyInt(n)
    IN  Let(GetInt(FIELD_NAMES, ufn, "field_" \o DecStr(ufn)), LAMBDA field_name :
        IF (is(1) \/ is(4) \/ is(8)) /\ uwt = 2
        THEN Let(parse_proto_fields(uval), LAMBDA inner_fields :
                 [abort |-> FALSE,
                  results |-> text_events(inner_fields, 1, field_name, results)])
        ELSE IF (is(2) \/ is(3)) /\ uwt = 2
        THEN Let(parse_tool_call_info(uval), LAMBDA tool_info :
                 IF tool_info.exc THEN [abort |-> TRUE, results |-> results]
                 ELSE [abort |-> FALSE,
                       results |-> Append(results,
                           [type |-> field_name, content |-> tool_info.v,
                            raw_hex |-> hex(uval)])])
        ELSE IF is(7) /\ uwt = 2
        THEN Let(parse_partial_tool_call(uval), LAMBDA partial_info :
                 IF partial_info.exc THEN [abort |-> TRUE, results |-> results]
                 ELSE [abort |-> FALSE,
                       results |-> Append(results,
                           [type |-> field_name, content |-> partial_info.v,
                            raw_hex |-> hex(uval)])])
        ELSE IF is(13)
        THEN [abort |-> FALSE,
              results |-> Append(results, [type |-> "heartbeat", content |-> None])]
        ELSE IF is(14)
        THEN [abort |-> FALSE,
              results |-> Append(results, [type |-> "turn_ended", content |-> None])]
        ELSE [abort |-> FALSE, results |-> results])

RECURSIVE update_loop(_, _, _)
update_loop(update_fields, i, results) ==
    IF i > Len(update_fields) THEN [abort |-> FALSE, results |-> results]
    ELSE Let(update_field(results, update_fields[i]), LAMBDA st :
             IF st.abort THEN st
             ELSE update_loop(update_fields, i + 1, st.results))

\* lines 222-225: the body of the loop over the fields of the AgentServerMessage
outer_field(results, f) ==
    IF IsLenDelim(f, 1)
    THEN Let(parse_proto_fields(f[3]), LAMBDA update_fields :
             update_loop(update_fields, 1, results))
    ELSE [abort |-> FALSE, results |-> results]

\* the loop taking the fields of the AgentServerMessage from the last to the first
RECURSIVE outer_loop_backwards(_, _, _)
outer_loop_backwards(outer_fields, i, results) ==
    IF i > Len(outer_fields) THEN results
    ELSE Let(outer_field(results, outer_fields[Len(outer_fields) + 1 - i]), LAMBDA st :
             IF st.abort THEN st.results
             ELSE outer_loop_backwards(outer_fields, i + 1, st.results))

RECURSIVE outer_loop(_, _, _)
outer_loop(outer_fields, i, results) ==
    IF i > Len(outer_fields) THEN results
    ELSE Let(outer_field(results, outer_fields[i]), LAMBDA st :
             IF st.abort THEN st.results      \* except Exception: pass
             ELSE outer_loop(outer_fields, i + 1, st.results))

parse_agent_message_detailed(d) ==
    Let(parse_proto_fields(d), LAMBDA outer_fields :
        [exc |-> FALSE, v |-> outer_loop(outer_fields, 1, <<>>)])

-----------------------------------------------------------------------------
(* modify_stream(data): the frame loop over one chunk                      *)

IsTextEvent(e) == e.type \in {"text_delta", "thinking_delta", "token_delta"}

\* lines 730-735: the events of one frame go to the two accumulators
RECURSIVE collect(_, _, _)
collect(events, i, acc) ==
    IF i > Len(events) THEN acc
    ELSE collect(events, i + 1,
            [events |-> Append(acc.events, events[i]),
             text   |-> IF IsTextEvent(events[i]) /\ events[i].content.v # <<>>
                        THEN Append(acc.text, events[i].content)
                        ELSE acc.text])

\* the frame with `continue` for a trailer before `offset += 5 + length`
frame_at_trailerstuck(d, off, acc) ==
    LET flags  == d[off + 1]
        length == d[off + 3] * 65536 + d[off + 4] * 256 + d[off + 5]
        o2     == off + 5 + length
    IN  IF d[off + 2] # 0 \/ off + 5 + length > Len(d)
        THEN [stop |-> TRUE, offset |-> off, acc |-> acc]
        ELSE IF flags \div 128 = 1          \* flags & 0x80: skip trailer
        THEN [stop |-> FALSE, offset |-> off, acc |-> acc]
        ELSE Let(parse_agent_message_detailed(SubSeq(d, off + 6, off + 5 + length)),
                 LAMBDA events :
                     IF events.exc          \* except Exception: pass
                     THEN [stop |-> TRUE, offset |-> o2, acc |-> acc]
                     ELSE [stop |-> FALSE, offset |-> o2,
                           acc |-> collect(events.v, 1, acc)])

\* lines 718-735: one frame at offset off of the chunk d; stop: the loop is left.
\* int.from_bytes(data[offset+1:offset+5], 'big') is 2^24 or more when its first
\* byte is not 0: then offset + 5 + length > len(data) for every chunk of the model
frame_at(d, off, acc) ==
    LET flags  == d[off + 1]
        length == d[off + 3] * 65536 + d[off + 4] * 256 + d[off + 5]
        o2     == off + 5 + length
    IN  IF d[off + 2] # 0 \/ off + 5 + length > Len(d)
        THEN [stop |-> TRUE, offset |-> off, acc |-> acc]
        ELSE IF flags \div 128 = 1          \* flags & 0x80: skip trailer
        THEN [stop |-> FALSE, offset |-> o2, acc |-> acc]
        ELSE Let(parse_agent_message_detailed(SubSeq(d, off + 6, off + 5 + length)),
                 LAMBDA events :
                     IF events.exc          \* except Exception: pass
                     THEN [stop |-> TRUE, offset |-> o2, acc |-> acc]
                     ELSE [stop |-> FALSE, offset |-> o2,
                           acc |-> collect(events.v, 1, acc)])

\* lines 716-737: the result is the offset the loop stopped at and the accumulators
RECURSIVE frame_loop(_, _, _)
frame_loop(d, off, acc) ==
    IF off + 5 <= Len(d)
    THEN Let(frame_at(d, off, acc), LAMBDA st :
             IF st.stop
             THEN [offset |-> st.offset, events |-> st.acc.events, text |-> st.acc.text]
             ELSE frame_loop(d, st.offset, st.acc))
    ELSE [offset |-> off, events |-> acc.events, text |-> acc.text]

-----------------------------------------------------------------------------
(* The protobuf wire encoding (spec section 6), used to build input        *)
(* buffers.  A field is [num, wt, val]: val is a Python int for wt 0, the  *)
(* payload bytes for wt 2, the 8 or 4 raw bytes for wt 1 or 5.             *)

EncodeVarint(v) ==
    IF v = <<>> THEN <<0>>
    ELSE [i \in 1..Len(v) |-> IF i < Len(v) THEN v[i] + 128 ELSE v[i]]

EncodeTag(num, wt) == EncodeVarint(PyInt(num * 8 + wt))

EncodeField(f) ==
    EncodeTag(f.num, f.wt) \o
    (CASE f.wt = 0 -> EncodeVarint(f.val)
       [] f.wt = 2 -> EncodeVarint(PyInt(Len(f.val))) \o f.val
       [] OTHER    -> f.val)

RECURSIVE EncodeFields(_)
EncodeFields(fs) ==
    IF fs = <<>> THEN <<>> ELSE EncodeField(fs[1]) \o EncodeFields(Tail(fs))

VarintField(num, n) == [num |-> num, wt |-> 0, val |-> PyInt(n)]
BytesField(num, bs) == [num |-> num, wt |-> 2, val |-> bs]
MsgField(num, fs) == [num |-> num, wt |-> 2, val |-> EncodeFields(fs)]

\* the tuple the scanner is to return for a field
Tuple(f) == <<PyInt(f.num), f.wt, f.val>>

RECURSIVE Tuples(_)
Tuples(fs) == IF fs = <<>> THEN <<>> ELSE <<Tuple(fs[1])>> \o Tuples(Tail(fs))

\* the varint and length-delimited fields of fs, as tuples
RECURSIVE ScalarTuples(_)
ScalarTuples(fs) ==
    IF fs = <<>> THEN <<>>
    ELSE (IF fs[1].wt \in {0, 2} THEN <<Tuple(fs[1])>> ELSE <<>>)
         \o ScalarTuples(Tail(fs))

\* a gRPC frame: flags, length as 4 bytes big-endian, payload
Frame(flags, payload) ==
    <<flags, 0, Len(payload) \div 65536, (Len(payload) \div 256) % 256,
      Len(payload) % 256>> \o payload

SeqsUpTo(S, n) == UNION {[1..k -> S] : k \in 0..n}

RECURSIVE Repeat(_, _)
Repeat(b, n) == IF n = 0 THEN <<>> ELSE <<b>> \o Repeat(b, n - 1)

-----------------------------------------------------------------------------
(* State that a specification does not use                                 *)

Streams == {"s1", "s2"}

\* lines 461-471: the fields of a new CursorAnalyzer that the handlers read.
\* verbose, output_file and toolcall_dump_file keep their defaults: what the
\* handlers log is the same lines, on the console only
CursorAnalyzer ==
    [request_count |-> 0, filtered_count |-> 0, filter_mode |-> "smart",
     debug |-> FALSE]

\* the module has been imported: lines 284-311 have built the dict and line 1054
\* the addon; nothing has been printed
Loaded ==
    /\ tool_field_map = TOOL_FIELD_MAP
    /\ addon = CursorAnalyzer
    /\ printed = <<>>

NoCall ==
    /\ data = <<>> /\ offset = 0 /\ op = "none" /\ ret = None /\ gen = None

NoStreams ==
    /\ metadata = [s \in Streams |-> EmptyDict]
    /\ phase = [s \in Streams |-> "buffered"]
    /\ wire = [s \in Streams |-> <<>>]
    /\ fed = [s \in Streams |-> <<>>]
    /\ emitted = [s \in Streams |-> <<>>]
    /\ forwarded = [s \in Streams |-> <<>>]

Returned(name) == op = name

-----------------------------------------------------------------------------
(* SpecVarint: parse_varint on encoded and on truncated varints            *)

MaxVarintBytes == 5

Digits == {0, 1, 127}
Pads == {<<>>, <<128>>, <<127, 255>>}
Tails == {<<>>, <<1>>, <<255>>}

\* the Python ints below 2^(7 * MaxVarintBytes) whose base-128 digits are in Digits
VarintValues == {v \in SeqsUpTo(Digits, MaxVarintBytes) : Norm(v) = v}

InitVarint ==
    /\ Loaded
    /\ \/ \E v \in VarintValues, pre \in Pads, suf \in Tails :
            /\ data = pre \o EncodeVarint(v) \o suf
            /\ offset = Len(pre)
            /\ gen = [kind |-> "encoded", value |-> v]
       \/ \E g \in SeqsUpTo(Digits, MaxVarintBytes), pre \in Pads :
            /\ data = pre \o [i \in 1..Len(g) |-> g[i] + 128]
            /\ offset = Len(pre)
            /\ gen = [kind |-> "truncated", value |-> g]
    /\ op = "none" /\ ret = None
    /\ NoStreams

CallParseVarint ==
    /\ op = "none"
    /\ op' = "parse_varint"
    /\ ret' = parse_varint(data, offset)
    /\ UNCHANGED <<data, offset, gen, streamVars, tableVars, addonVars>>

NextVarint == CallParseVarint

SpecVarint == InitVarint /\ [][NextVarint]_vars

\* C7: varint round trip. Decoding the standard encoding of v, placed at any
\* offset of a buffer, returns v and the offset just after the encoding.
C7_VarintRoundTrip ==
    (Returned("parse_varint") /\ gen.kind = "encoded")
        => ret = <<gen.value, offset + Len(EncodeVarint(gen.value))>>

C7_Witness ==
    /\ Returned("parse_varint") /\ gen.kind = "encoded"
    /\ Len(gen.value) = MaxVarintBytes /\ offset > 0
    /\ Len(data) > offset + MaxVarintBytes
    /\ ret[1] = gen.value

\* C8: a varint cut before its terminating byte (every byte from the offset to
\* the end of the buffer has its high bit set) decodes to the value accumulated
\* from the low 7 bits of the bytes read, byte i in bits 7i..7i+6, and to the
\* offset of the end of the buffer.
C8_TruncatedVarint ==
    (Returned("parse_varint") /\ gen.kind = "truncated")
        => /\ ret[1] = Norm([i \in 1..(Len(data) - offset) |-> data[offset + i] % 128])
           /\ ret[2] = Len(data)

C8_Witness ==
    /\ Returned("parse_varint") /\ gen.kind = "truncated"
    /\ Len(data) - offset >= 2
    /\ \A i \in (offset + 1)..Len(data) : data[i] >= 128
    /\ ret[1] # <<>> /\ ret[2] = Len(data)

-----------------------------------------------------------------------------
(* SpecScan: parse_proto_fields on encoded buffers, whole and cut          *)

MaxFields == 2

\* the bytes of the fixed fields scan as fields themselves when they are not skipped
ScanFields ==
    { VarintField(1, 1), VarintField(2, 300), VarintField(16, 0),
      BytesField(1, <<97, 98>>), BytesField(3, <<>>),
      [num |-> 4, wt |-> 1, val |-> <<8, 1, 8, 2, 8, 3, 8, 4>>],
      [num |-> 5, wt |-> 5, val |-> <<10, 1, 97, 0>>] }

\* a payload of 128 bytes has a length prefix of two bytes
LongField == BytesField(2, Repeat(97, 128))

\* tags of the group wire types 3 and 4 and of the wire types 6 and 7
UnknownTags == {[num |-> n, wt |-> w, val |-> <<>>] : n \in {1, 16}, w \in {3, 4, 6, 7}}

InitScan ==
    /\ Loaded
    /\ \/ \E fs \in SeqsUpTo(ScanFields, MaxFields) :
            /\ data = EncodeFields(fs)
            /\ gen = [kind |-> "whole", fields |-> fs, part |-> None, cut |-> 0]
       \/ \E fs \in SeqsUpTo(ScanFields, MaxFields), f \in ScanFields \cup {LongField} :
          \E k \in 1..(Len(EncodeField(f)) - 1) :
            /\ data = EncodeFields(fs) \o SubSeq(EncodeField(f), 1, k)
            /\ gen = [kind |-> "cut", fields |-> fs, part |-> f, cut |-> k]
       \/ \E fs \in SeqsUpTo(ScanFields, MaxFields), t \in UnknownTags,
             after \in SeqsUpTo(ScanFields, 1) :
            /\ data = EncodeFields(fs) \o EncodeTag(t.num, t.wt) \o EncodeFields(after)
            /\ gen = [kind |-> "unknown", fields |-> fs, part |-> t, cut |-> 0,
                      after |-> after]
    /\ offset = 0 /\ op = "none" /\ ret = None
    /\ NoStreams

CallParseProtoFields ==
    /\ op = "none"
    /\ op' = "parse_proto_fields"
    /\ ret' = parse_proto_fields(data)
    /\ UNCHANGED <<data, offset, gen, streamVars, tableVars, addonVars>>

NextScan == CallParseProtoFields

SpecScan == InitScan /\ [][NextScan]_vars

\* where the cut of the last field falls
TagLen(f) == Len(EncodeTag(f.num, f.wt))
LenLen(f) == Len(EncodeVarint(PyInt(Len(f.val))))
CutInTag == gen.kind = "cut" /\ gen.cut < TagLen(gen.part)
CutAfterTag == gen.kind = "cut" /\ gen.cut = TagLen(gen.part)
CutInValue ==
    gen.kind = "cut" /\ gen.part.wt = 0 /\ gen.cut > TagLen(gen.part)
CutInLength ==
    /\ gen.kind = "cut" /\ gen.part.wt = 2
    /\ gen.cut > TagLen(gen.part)
    /\ gen.cut < TagLen(gen.part) + LenLen(gen.part)
CutInPayload ==
    /\ gen.kind = "cut" /\ gen.part.wt = 2
    /\ gen.cut >= TagLen(gen.part) + LenLen(gen.part)

HasFixed(fs) == \E i \in 1..Len(fs) : fs[i].wt \in {1, 5}

\* C4 as stated: a validly encoded buffer of N fields scans to exactly N tuples,
\* one per field, in encoding order, with the encoded number, wire type and value.
C4_AllFieldsReturned ==
    (Returned("parse_proto_fields") /\ gen.kind = "whole")
        => ret = Tuples(gen.fields)

\* C4 amended: the scan returns one tuple per varint or length-delimited field,
\* in encoding order, with the encoded number, wire type and value; the fixed64
\* and fixed32 fields are skipped and return none.
C4_ScanCompleteness ==
    (Returned("parse_proto_fields") /\ gen.kind = "whole")
        => ret = ScalarTuples(gen.fields)

C4_Witness ==
    /\ Returned("parse_proto_fields") /\ gen.kind = "whole"
    /\ Len(gen.fields) = MaxFields /\ HasFixed(gen.fields)
    /\ gen.fields[MaxFields].wt = 2
    /\ Len(ret) >= 1 /\ Len(ret) < MaxFields

\* C5 as stated: a buffer cut inside the payload of a length-delimited field scans
\* to all the fields encoded before the cut field, and nothing else.
C5_AllFieldsBeforeCut ==
    (Returned("parse_proto_fields") /\ CutInPayload)
        => ret = Tuples(gen.fields)

\* C5 amended: it scans to the varint and length-delimited fields encoded before
\* the cut field, in order, and nothing else: no tuple for the cut field.
C5_TruncationTolerance ==
    (Returned("parse_proto_fields") /\ CutInPayload)
        => ret = ScalarTuples(gen.fields)

C5_Witness ==
    /\ Returned("parse_proto_fields") /\ CutInPayload
    /\ gen.cut > TagLen(gen.part) + LenLen(gen.part)
    /\ Len(gen.fields) = MaxFields
    /\ Len(ret) = MaxFields

\* C6: a buffer that ends in the middle of a field (after a tag whose value or
\* length prefix is missing, or inside a varint) scans to exactly the fields
\* decoded before that field: no tuple is returned for the incomplete field.
C6_NoFieldForIncomplete ==
    (/\ Returned("parse_proto_fields")
     /\ (CutInTag \/ CutAfterTag \/ CutInValue \/ CutInLength)
     /\ gen.part.wt \in {0, 2})
        => ret = ScalarTuples(gen.fields)

\* C22: a tag whose wire type is 3, 4, 6 or 7 ends the scan of the buffer: the
\* result is the tuples of the fields encoded before the tag, in order, and no
\* tuple for the tag or for what follows it.
C22_UnknownWireType ==
    (Returned("parse_proto_fields") /\ gen.kind = "unknown")
        => ret = ScalarTuples(gen.fields)

\* fields before the tag were collected and a field after it was not
C22_Witness ==
    /\ Returned("parse_proto_fields") /\ gen.kind = "unknown"
    /\ gen.part.wt = 3 /\ gen.after = <<VarintField(1, 1)>>
    /\ Len(gen.fields) = MaxFields /\ Len(ret) = MaxFields

\* the fields of fs that are not fixed64 or fixed32
RECURSIVE WithoutFixed(_)
WithoutFixed(fs) ==
    IF fs = <<>> THEN <<>>
    ELSE (IF fs[1].wt \in {1, 5} THEN <<>> ELSE <<fs[1]>>) \o WithoutFixed(Tail(fs))

\* C23: fixed fields are skipped. Every tuple returned, for any buffer, has the
\* wire type 0 or 2; and a buffer of whole fields scans to what the buffer without
\* its fixed64 (8 bytes) and fixed32 (4 bytes) fields scans to, which is one tuple
\* for each of the other fields: the fields after a fixed field are returned.
C23_FixedSkipped ==
    Returned("parse_proto_fields")
        => /\ \A i \in 1..Len(ret) : ret[i][2] \in {0, 2}
           /\ gen.kind = "whole"
                 => /\ ret = parse_proto_fields(EncodeFields(WithoutFixed(gen.fields)))
                    /\ Len(ret) = Len(WithoutFixed(gen.fields))

\* a fixed32 field, then a length-delimited field that was returned
C23_Witness ==
    /\ Returned("parse_proto_fields") /\ gen.kind = "whole"
    /\ Len(gen.fields) = 2
    /\ gen.fields[1].wt = 5 /\ gen.fields[2] = BytesField(1, <<97, 98>>)
    /\ ret = <<Tuple(BytesField(1, <<97, 98>>))>>

-----------------------------------------------------------------------------
(* SpecDecode: every decode function on malformed input                    *)

MaxBytes == 3

\* 0A and 12: tags of the length-delimited fields 1 and 2; 0B: field 1 with wire
\* type 3; FF: not UTF-8, and a varint byte that asks for another
DecodeAlphabet == {0, 1, 10, 11, 18, 255}

BadText == <<255>>

\* ToolCall { 8: { 1: bad, 2: { 1: bad }, 3: "a" } }
BadToolCall ==
    EncodeFields(<<MsgField(8, <<BytesField(1, BadText),
                                 MsgField(2, <<BytesField(1, BadText)>>),
                                 BytesField(3, <<97>>)>>)>>)

BadToolCallInfo ==
    EncodeFields(<<BytesField(1, BadText), BytesField(2, BadToolCall),
                   BytesField(3, BadText)>>)

BadPartialToolCall ==
    EncodeFields(<<BytesField(1, BadText), BytesField(2, BadToolCall),
                   BytesField(3, BadText), BytesField(4, BadText)>>)

\* an AgentServerMessage whose update has a text that is not UTF-8, the two
\* messages above, a heartbeat, and a field of wire type 3
BadMessage ==
    EncodeFields(<<MsgField(1, <<MsgField(1, <<BytesField(1, BadText)>>),
                                 BytesField(2, BadToolCallInfo),
                                 BytesField(7, BadPartialToolCall),
                                 VarintField(13, 0),
                                 [num |-> 9, wt |-> 3, val |-> <<>>]>>)>>)

BadChunk == Frame(0, BadMessage) \o Frame(1, <<10, 1>>) \o Frame(128, <<255>>)

Seeds == {BadToolCall, BadToolCallInfo, BadPartialToolCall, BadMessage, BadChunk}

Prefixes(s) == {SubSeq(s, 1, k) : k \in 0..Len(s)}

Corrupted(s) == {[s EXCEPT ![i] = b] : i \in 1..Len(s), b \in DecodeAlphabet}

DecodeInputs ==
    SeqsUpTo(DecodeAlphabet, MaxBytes)
    \cup UNION {Prefixes(s) \cup Corrupted(s) : s \in Seeds}

InitDecode ==
    /\ Loaded
    /\ data \in DecodeInputs
    /\ offset \in {0, Len(data) \div 2, Len(data)}
    /\ gen = [kind |-> "malformed"]
    /\ op = "none" /\ ret = None
    /\ NoStreams

\* parse_tool_call that records in the table the number of a field it does not
\* know
CallParseToolCall_register ==
    /\ op = "none"
    /\ op' = "parse_tool_call"
    /\ ret' = parse_tool_call(data)
    /\ tool_field_map' = Put(tool_field_map, 2, "unknown")
    /\ UNCHANGED <<data, offset, gen, streamVars, addonVars>>

CallParseToolCall ==
    /\ op = "none"
    /\ op' = "parse_tool_call"
    /\ ret' = parse_tool_call(data)
    /\ UNCHANGED <<data, offset, gen, streamVars, tableVars, addonVars>>

CallParseToolCallInfo ==
    /\ op = "none"
    /\ op' = "parse_tool_call_info"
    /\ ret' = parse_tool_call_info(data)
    /\ UNCHANGED <<data, offset, gen, streamVars, tableVars, addonVars>>

CallParsePartialToolCall ==
    /\ op = "none"
    /\ op' = "parse_partial_tool_call"
    /\ ret' = parse_partial_tool_call(data)
    /\ UNCHANGED <<data, offset, gen, streamVars, tableVars, addonVars>>

CallParseAgentMessageDetailed ==
    /\ op = "none"
    /\ op' = "parse_agent_message_detailed"
    /\ ret' = parse_agent_message_detailed(data)
    /\ UNCHANGED <<data, offset, gen, streamVars, tableVars, addonVars>>

\* the frame loop of modify_stream on the chunk data, the accumulators empty
CallFrameLoop ==
    /\ op = "none"
    /\ op' = "frame_loop"
    /\ ret' = frame_loop(data, 0, [events |-> <<>>, text |-> <<>>])
    /\ UNCHANGED <<data, offset, gen, streamVars, tableVars, addonVars>>

NextDecode ==
    \/ CallParseVarint
    \/ CallParseProtoFields
    \/ CallParseToolCall
    \/ CallParseToolCallInfo
    \/ CallParsePartialToolCall
    \/ CallParseAgentMessageDetailed
    \/ CallFrameLoop

SpecDecode == InitDecode /\ [][NextDecode]_vars

EventTypes == {FIELD_NAMES[n] : n \in DOMAIN FIELD_NAMES}

\* C3: on every input, malformed or truncated or with unknown field numbers or
\* wire types, every decode function returns a result and lets no exception
\* reach its caller: parse_varint an offset inside the buffer, parse_proto_fields
\* a list of varint and length-delimited tuples, the four message decoders a
\* value and no exception, the frame loop a list of events of the known types.
C3_NoErrorReachesCaller ==
    /\ Returned("parse_varint") => ret[2] \in offset..Len(data)
    /\ Returned("parse_proto_fields")
         => \A i \in 1..Len(ret) : ret[i][2] \in {0, 2}
    /\ op \in {"parse_tool_call", "parse_tool_call_info", "parse_partial_tool_call",
               "parse_agent_message_detailed"}
         => ~ret.exc
    /\ Returned("parse_tool_call") => DOMAIN ret.v = {"tool_name", "args"}
    /\ Returned("frame_loop")
         => /\ ret.offset \in 0..Len(data)
            /\ \A i \in 1..Len(ret.events) : ret.events[i].type \in EventTypes

\* a call_id and a model_call_id that are not UTF-8 around a ToolCall: the result
\* has the tool name and neither of the two
C3_Witness ==
    /\ Returned("parse_tool_call_info") /\ data = BadToolCallInfo
    /\ ~ret.exc
    /\ DOMAIN ret.v = {"tool_name", "args"}
    /\ ret.v.tool_name = "read"

\* C20: every tuple that parse_proto_fields returns, for any input buffer, has a
\* field number of at least 1.
C20_FieldNumberPositive ==
    Returned("parse_proto_fields")
        => \A i \in 1..Len(ret) : ret[i][1] # PyInt(0)

\* the numbers 1..30 without the gaps
SelectorNumbers == (1..30) \ {2, 6, 7, 11}

\* C19 as stated: the tool-selector table has exactly 30 entries, its keys are
\* the field numbers 1..30 without 2, 6, 7 and 11, and no decode operation
\* modifies it.
C19_ThirtyEntries ==
    /\ Cardinality(DOMAIN tool_field_map) = 30
    /\ DOMAIN tool_field_map = SelectorNumbers
    /\ tool_field_map = TOOL_FIELD_MAP

\* C19, amended: the tool-selector table has exactly 26 entries, one for each
\* field number of 1..30 other than 2, 6, 7 and 11, and it is the table built at
\* import whatever decode operations have run.
C19_SelectorTable ==
    /\ Cardinality(DOMAIN tool_field_map) = 26
    /\ DOMAIN tool_field_map = SelectorNumbers
    /\ tool_field_map = TOOL_FIELD_MAP

\* a decode operation has looked a field number up in the table and found it
C19_Witness ==
    /\ op \in {"parse_tool_call", "parse_tool_call_info", "parse_agent_message_detailed"}
    /\ \/ Returned("parse_tool_call") /\ ret.v.tool_name \in {"bash", "read", "edit"}
       \/ Returned("parse_tool_call_info") /\ "tool_name" \in DOMAIN ret.v
                                           /\ ret.v["tool_name"] # "unknown"
       \/ Returned("parse_agent_message_detailed")
              /\ \E i \in 1..Len(ret.v) : ret.v[i].type = "tool_call_started"

-----------------------------------------------------------------------------
(* SpecTool: parse_tool_call on encoded ToolCall messages                  *)

MaxToolFields == 3

\* an argument of a tool: a string as raw bytes, a string wrapped in a message
\* as its field 1, or a varint (its value as a Python int)
ArgPlain(n, s) == [num |-> n, form |-> "plain", val |-> s]
ArgWrapped(n, s) == [num |-> n, form |-> "wrapped", val |-> s]
ArgVarint(n, k) == [num |-> n, form |-> "varint", val |-> PyInt(k)]

EncodeArg(a) ==
    CASE a.form = "plain"   -> EncodeField(BytesField(a.num, a.val))
      [] a.form = "wrapped" -> EncodeField(MsgField(a.num, <<BytesField(1, a.val)>>))
      [] OTHER              -> EncodeField([num |-> a.num, wt |-> 0, val |-> a.val])

RECURSIVE EncodeArgs(_)
EncodeArgs(as) == IF as = <<>> THEN <<>> ELSE EncodeArg(as[1]) \o EncodeArgs(Tail(as))

\* "a.ts"; "ls", "x" under the number 9, 0 under the number 200; "a", 1 under the
\* number 4, 5 under the number 2, and "b" under the number 1 again
ToolPayloads ==
    { <<ArgPlain(1, <<97, 46, 116, 115>>)>>,
      <<ArgWrapped(1, <<108, 115>>), ArgPlain(9, <<120>>), ArgVarint(200, 0)>>,
      <<ArgPlain(1, <<97>>), ArgVarint(4, 1), ArgVarint(2, 5), ArgPlain(1, <<98>>)>> }

\* payloads for edit: replaceAll (the number 4) as the varints 0 and 2, and the
\* varint 300 under the number 3
BoolPayloads ==
    { <<ArgVarint(4, 0), ArgVarint(3, 300)>>, <<ArgVarint(4, 2)>> }

\* top-level fields of a ToolCall: bash, read and edit with each payload, the
\* numbers 2 and 31 (no tools), and the numbers of read and bash as varints
ToolFields ==
    {[num |-> n, wt |-> 2, args |-> p] : n \in {1, 8, 12}, p \in ToolPayloads}
    \cup {[num |-> n, wt |-> 2, args |-> <<ArgPlain(1, <<97, 46, 116, 115>>)>>] :
              n \in {2, 31}}
    \cup {[num |-> n, wt |-> 0, args |-> <<>>] : n \in {1, 8}}
    \cup {[num |-> 12, wt |-> 2, args |-> p] : p \in BoolPayloads}

EncodeTool(f) ==
    IF f.wt = 2 THEN EncodeField(BytesField(f.num, EncodeArgs(f.args)))
    ELSE EncodeField(VarintField(f.num, 1))

RECURSIVE EncodeTools(_)
EncodeTools(fs) == IF fs = <<>> THEN <<>> ELSE EncodeTool(fs[1]) \o EncodeTools(Tail(fs))

InitTool ==
    /\ Loaded
    /\ \E fs \in SeqsUpTo(ToolFields, MaxToolFields) :
            /\ data = EncodeTools(fs)
            /\ gen = [kind |-> "tool", fields |-> fs]
    /\ offset = 0 /\ op = "none" /\ ret = None
    /\ NoStreams

NextTool == CallParseToolCall

SpecTool == InitTool /\ [][NextTool]_vars

IsSelectorField(f) == f.num \in DOMAIN TOOL_FIELD_MAP /\ f.wt = 2

\* index of the first selector field of fs in encoding order, 0 when it has none
FirstMatch(fs) ==
    LET S == {i \in 1..Len(fs) : IsSelectorField(fs[i])}
    IN  IF S = {} THEN 0 ELSE CHOOSE i \in S : \A j \in S : i <= j

\* C9: first match wins. The tool name is that of the first top-level field, in
\* encoding order, whose number is in the selector table and whose wire type is
\* length-delimited; selector numbers with the varint wire type are passed over,
\* and the result is the one of the message that holds that field alone: the
\* fields around it change neither the tool name nor the arguments.
C9_FirstMatchWins ==
    (Returned("parse_tool_call") /\ gen.kind = "tool"
     /\ FirstMatch(gen.fields) # 0)
        => LET f == gen.fields[FirstMatch(gen.fields)]
           IN  /\ ret.v.tool_name = TOOL_FIELD_MAP[f.num]
               /\ ret.v = parse_tool_call(EncodeTool(f)).v

C9_Witness ==
    /\ Returned("parse_tool_call") /\ gen.kind = "tool"
    /\ Len(gen.fields) = 3
    /\ gen.fields[1].wt = 0 /\ gen.fields[1].num \in DOMAIN TOOL_FIELD_MAP
    /\ IsSelectorField(gen.fields[2]) /\ IsSelectorField(gen.fields[3])
    /\ gen.fields[2].num = 12 /\ gen.fields[3].num = 8
    /\ gen.fields[2].args # gen.fields[3].args
    /\ ret.v.tool_name = "edit"

\* the name of the sub-field n of a tool: the entry of the schema of that tool,
\* or "field_" and the number
ExpectedName(tool, n) ==
    IF n \in 1..Len(TOOL_ARG_SCHEMA[tool]) THEN TOOL_ARG_SCHEMA[tool][n]
    ELSE "field_" \o ToString(n)

ExpectedValue(name, a) ==
    IF a.form = "varint"
    THEN IF name = "replaceAll" THEN [t |-> "bool", v |-> (a.val = PyInt(1))]
         ELSE [t |-> "int", v |-> a.val]
    ELSE Str(a.val)

RECURSIVE ExpectedArgs(_, _)
ExpectedArgs(tool, as) ==
    IF as = <<>> THEN EmptyDict
    ELSE LET a == as[Len(as)]
         IN  Put(ExpectedArgs(tool, SubSeq(as, 1, Len(as) - 1)),
                 ExpectedName(tool, a.num), ExpectedValue(ExpectedName(tool, a.num), a))

LastVarints(as) ==
    {i \in 1..Len(as) : /\ as[i].form = "varint"
                        /\ \A j \in (i + 1)..Len(as) : as[j].num # as[i].num}

\* C11: boolean coercion. For the edit tool the sub-field 4 (replaceAll), encoded
\* as a varint, is the boolean that is true exactly when the value is 1; every
\* other varint sub-field, of edit and of the other tools, keeps its integer.
C11_BooleanCoercion ==
    (Returned("parse_tool_call") /\ gen.kind = "tool"
     /\ FirstMatch(gen.fields) # 0)
        => LET f == gen.fields[FirstMatch(gen.fields)]
           IN  \A i \in LastVarints(f.args) :
                   IF f.num = 12 /\ f.args[i].num = 4
                   THEN /\ ret.v.args["replaceAll"].t = "bool"
                        /\ ret.v.args["replaceAll"].v = (f.args[i].val = PyInt(1))
                   ELSE ret.v.args[ExpectedName(TOOL_FIELD_MAP[f.num], f.args[i].num)]
                            = [t |-> "int", v |-> f.args[i].val]

\* edit with replaceAll encoded as 0 and the sub-field 3 as 300
C11_Witness ==
    /\ Returned("parse_tool_call") /\ gen.kind = "tool"
    /\ FirstMatch(gen.fields) # 0
    /\ gen.fields[FirstMatch(gen.fields)].num = 12
    /\ gen.fields[FirstMatch(gen.fields)].args = <<ArgVarint(4, 0), ArgVarint(3, 300)>>
    /\ ret.v.args["replaceAll"] = [t |-> "bool", v |-> FALSE]
    /\ ret.v.args["newString"] = [t |-> "int", v |-> PyInt(300)]

-----------------------------------------------------------------------------
(* SpecArgs: the arguments of one tool, decodable or not                   *)

\* the bytes of a length-delimited argument: "a.ts"; "ab" wrapped as field 1; FF
\* wrapped as field 1; FF; and C3 wrapped as field 1 with A9 after it, which as a
\* whole is the text of 0A 01 and e-acute
ArgBytes ==
    { <<97, 46, 116, 115>>, <<10, 2, 97, 98>>, <<10, 1, 255>>, <<255>>,
      <<10, 1, 195, 169>> }

ArgItems ==
    {ArgPlain(n, b) : n \in {1, 2}, b \in ArgBytes} \cup {ArgVarint(3, 5)}

\* ToolCall { 8 (read): the arguments }
InitArgs ==
    /\ Loaded
    /\ \E as \in SeqsUpTo(ArgItems, MaxToolFields) :
          LET f == [num |-> 8, wt |-> 2, args |-> as]
          IN  /\ data = EncodeTool(f)
              /\ gen = [kind |-> "args", fields |-> <<f>>]
    /\ offset = 0 /\ op = "none" /\ ret = None
    /\ NoStreams

SpecArgs == InitArgs /\ [][NextTool]_vars

\* the first length-delimited field 1 of the bytes scanned as a message, 0 if none
NestedString(b) ==
    LET nested == parse_proto_fields(b)
        S == {i \in 1..Len(nested) : nested[i][1] = PyInt(1) /\ nested[i][2] = 2}
    IN  IF S = {} THEN <<>> ELSE <<nested[CHOOSE i \in S : \A j \in S : i <= j][3]>>

\* the value of a length-delimited argument as C25 states it: the nested string
\* if there is one and it decodes; in every other case the bytes decoded as they
\* are; none when that fails too
ClaimedString(b) ==
    LET n == NestedString(b)
    IN  IF n # <<>> /\ decode_utf8(n[1]).ok THEN decode_utf8(n[1])
        ELSE decode_utf8(b)

RECURSIVE ClaimedArgs(_, _)
ClaimedArgs(tool, as) ==
    IF as = <<>> THEN EmptyDict
    ELSE LET a    == as[Len(as)]
             prev == ClaimedArgs(tool, SubSeq(as, 1, Len(as) - 1))
             name == ExpectedName(tool, a.num)
         IN  IF a.form = "varint" THEN Put(prev, name, ExpectedValue(name, a))
             ELSE IF ClaimedString(a.val).ok
             THEN Put(prev, name, Str(ClaimedString(a.val).s))
             ELSE prev

\* C25: string coercion. Each length-delimited argument has the value of its
\* nested field 1 when that is a decodable string, and in every other case (no
\* such field, or one that does not decode) the value of its raw bytes decoded;
\* it is missing only when both fail.
C25_StringCoercion ==
    (Returned("parse_tool_call") /\ gen.kind = "args")
        => ret.v.args = ClaimedArgs("read", gen.fields[1].args)

\* the argument fails to decode: its nested field 1 does not decode or, having
\* none, its bytes do not
FailsToDecode(a) ==
    /\ a.form = "plain"
    /\ LET n == NestedString(a.val)
       IN  IF n # <<>> THEN ~decode_utf8(n[1]).ok ELSE ~decode_utf8(a.val).ok

RECURSIVE WithoutFailing(_)
WithoutFailing(as) ==
    IF as = <<>> THEN <<>>
    ELSE (IF FailsToDecode(as[1]) THEN <<>> ELSE <<as[1]>>) \o WithoutFailing(Tail(as))

-----------------------------------------------------------------------------
(* SpecNoSelector: ToolCall messages without a selector field, alone and   *)
(* inside a ToolCallStartedUpdate                                          *)

\* length-delimited fields with the numbers of the gaps of the table and one
\* above it, selector numbers with the varint wire type, and one selector (read)
NoSelectorFields ==
    {[num |-> n, wt |-> 2, args |-> <<ArgPlain(1, <<97, 46, 116, 115>>)>>] :
         n \in {2, 6, 7, 11, 31}}
    \cup {[num |-> n, wt |-> 0, args |-> <<>>] : n \in {1, 8}}

ReadField == [num |-> 8, wt |-> 2, args |-> <<ArgPlain(1, <<97, 46, 116, 115>>)>>]

\* ToolCallStartedUpdate { 1: call_id "c", 2: ToolCall }
Started(fs) == EncodeFields(<<BytesField(1, <<99>>), BytesField(2, EncodeTools(fs))>>)

InitNoSelector ==
    /\ Loaded
    /\ \E fs \in SeqsUpTo(NoSelectorFields \cup {ReadField}, MaxToolFields) :
          \/ data = EncodeTools(fs) /\ gen = [kind |-> "tool", fields |-> fs]
          \/ data = Started(fs) /\ gen = [kind |-> "started", fields |-> fs]
    /\ offset = 0 /\ op = "none" /\ ret = None
    /\ NoStreams

NextNoSelector == CallParseToolCall \/ CallParseToolCallInfo

SpecNoSelector == InitNoSelector /\ [][NextNoSelector]_vars

\* C18: no selector field. For a ToolCall message none of whose length-delimited
\* fields has a number of the selector table, parse_tool_call raises nothing and
\* returns the tool name 'unknown' with no argument, and the update decoded from a
\* ToolCallStartedUpdate that holds the message has the same name and arguments.
C18_NoSelector ==
    /\ (Returned("parse_tool_call") /\ gen.kind = "tool"
        /\ FirstMatch(gen.fields) = 0)
           => ret = [exc |-> FALSE,
                     v |-> [tool_name |-> "unknown", args |-> EmptyDict]]
    /\ (Returned("parse_tool_call_info") /\ gen.kind = "started"
        /\ FirstMatch(gen.fields) = 0)
           => ret = [exc |-> FALSE,
                     v |-> Put(Put(Put(EmptyDict, "call_id", Str(<<99>>)),
                                   "tool_name", "unknown"), "args", EmptyDict)]

\* an update whose ToolCall has fields 2, 6 and 11 has been decoded
C18_Witness ==
    /\ Returned("parse_tool_call_info") /\ gen.kind = "started"
    /\ Len(gen.fields) = 3
    /\ gen.fields[1].num = 2 /\ gen.fields[2].num = 6 /\ gen.fields[3].num = 11
    /\ ret.v["tool_name"] = "unknown"

-----------------------------------------------------------------------------
(* SpecUpdate: parse_agent_message_detailed on encoded AgentServerMessages *)

MaxItems == 4

\* the fields of the InteractionUpdates of a message, in encoding order; the
\* item NewUpdate ends an InteractionUpdate (top-level field 1) and starts the next
Text(n, ts) == [k |-> "text", num |-> n, wt |-> 2, texts |-> ts]
Beat == [k |-> "beat", num |-> 13, wt |-> 0, texts |-> <<>>]
Gap(n, w) == [k |-> "gap", num |-> n, wt |-> w, texts |-> <<>>]
ToolStarted == [k |-> "tool", num |-> 2, wt |-> 2, texts |-> <<>>]
NewUpdate == [k |-> "new", num |-> 0, wt |-> 0, texts |-> <<>>]

Hello == <<72, 101, 108, 108, 111>>

\* "Hello"; a thinking wrapper with two fields 1, "a" and "b"; a token wrapper
\* with the empty text; a text that is not UTF-8; the token "c"
TextItems ==
    { Text(1, <<Hello>>), Text(4, <<<<97>>, <<98>>>>), Text(8, <<<<>>>>),
      Text(1, <<BadText>>), Text(8, <<<<99>>>>) }

\* the numbers the update-kind table leaves out, as varint and length-delimited
GapItems == {Gap(n, w) : n \in {5, 6, 9, 10, 11, 12, 300}, w \in {0, 2}}

UpdateItems == TextItems \cup {Beat, Gap(9, 2), ToolStarted, NewUpdate}

\* ToolCallStartedUpdate { 1: "c", 2: ToolCall { 2: { 1: "a.ts" }, 8: 1 } }: the
\* ToolCall has the number 2 (no tool) and the number of read as a varint
NoSelectorInfo ==
    EncodeFields(<<BytesField(1, <<99>>),
                   MsgField(2, <<MsgField(2, <<BytesField(1, <<97, 46, 116, 115>>)>>),
                                 VarintField(8, 1)>>)>>)

EncodeItem(u) ==
    CASE u.k = "text" ->
           EncodeField(BytesField(u.num,
               EncodeFields([i \in 1..Len(u.texts) |-> BytesField(1, u.texts[i])])))
      [] u.k = "tool" -> EncodeField(BytesField(u.num, NoSelectorInfo))
      [] OTHER -> IF u.wt = 0 THEN EncodeField(VarintField(u.num, 0))
                  ELSE EncodeField(BytesField(u.num, <<120>>))

RECURSIVE EncodeItems(_)
EncodeItems(us) ==
    IF us = <<>> THEN <<>> ELSE EncodeItem(us[1]) \o EncodeItems(Tail(us))

\* the items up to the first NewUpdate, and the items after it
FirstUpdate(us) ==
    LET S == {i \in 1..Len(us) : us[i].k = "new"}
        n == IF S = {} THEN Len(us) + 1 ELSE CHOOSE i \in S : \A j \in S : i <= j
    IN  [head |-> SubSeq(us, 1, n - 1), rest |-> SubSeq(us, n + 1, Len(us))]

\* AgentServerMessage: one top-level field 1 per InteractionUpdate
RECURSIVE EncodeMessage(_)
EncodeMessage(us) ==
    IF us = <<>> THEN <<>>
    ELSE EncodeField(BytesField(1, EncodeItems(FirstUpdate(us).head)))
         \o EncodeMessage(FirstUpdate(us).rest)

InitUpdate ==
    /\ Loaded
    /\ \E us \in SeqsUpTo(UpdateItems, MaxItems)
               \cup {<<g>> : g \in GapItems}
               \cup {<<Beat, g, Text(1, <<Hello>>)>> : g \in GapItems} :
            /\ data = EncodeMessage(us)
            /\ gen = [kind |-> "message", items |-> us]
    /\ offset = 0 /\ op = "none" /\ ret = None
    /\ NoStreams

NextUpdate == CallParseAgentMessageDetailed

SpecUpdate == InitUpdate /\ [][NextUpdate]_vars

OnlyText(us) == \A i \in 1..Len(us) : us[i].k \in {"text", "new"}

TextKind(n) ==
    CASE n = 1 -> "text_delta" [] n = 4 -> "thinking_delta" [] n = 8 -> "token_delta"

\* the texts of the model are ASCII or BadText
Decodable(t) == \A i \in 1..Len(t) : t[i] < 128

\* one update for the wrapper u when one of its fields 1 is decodable, with the
\* text of the last such field
OneUpdate(u) ==
    LET S == {i \in 1..Len(u.texts) : Decodable(u.texts[i])}
    IN  IF u.k # "text" \/ S = {} THEN <<>>
        ELSE <<[type |-> TextKind(u.num),
                content |-> Str(u.texts[CHOOSE i \in S : \A j \in S : j <= i])]>>

RECURSIVE OneUpdateEach(_)
OneUpdateEach(us) ==
    IF us = <<>> THEN <<>> ELSE OneUpdate(us[1]) \o OneUpdateEach(Tail(us))

\* one update for each field 1 of the wrapper u whose text is decodable and not
\* empty
RECURSIVE TextsOf(_, _)
TextsOf(kind, ts) ==
    IF ts = <<>> THEN <<>>
    ELSE (IF Decodable(ts[1]) /\ ts[1] # <<>>
          THEN <<[type |-> kind, content |-> Str(ts[1])]>> ELSE <<>>)
         \o TextsOf(kind, Tail(ts))

TextUpdates(u) == IF u.k = "text" THEN TextsOf(TextKind(u.num), u.texts) ELSE <<>>

RECURSIVE TextUpdatesEach(_)
TextUpdatesEach(us) ==
    IF us = <<>> THEN <<>> ELSE TextUpdates(us[1]) \o TextUpdatesEach(Tail(us))

\* C12 as stated: a message of text, thinking and token wrappers gives exactly one
\* update per wrapper that holds a decodable text in its field 1, with that text,
\* and none for a wrapper only when its text cannot be decoded.
C12_OneUpdatePerWrapper ==
    (Returned("parse_agent_message_detailed") /\ gen.kind = "message"
     /\ OnlyText(gen.items))
        => ret.v = OneUpdateEach(gen.items)

\* C12 amended: it gives one update per field 1 of a wrapper whose text is
\* decodable and not empty, of the kind of the wrapper and with exactly that
\* text, in order; a field 1 whose text is empty or cannot be decoded gives none.
\* field1->(field1->(field1->"Hello")) decodes to one text_delta "Hello".
C12_TextUpdates ==
    (Returned("parse_agent_message_detailed") /\ gen.kind = "message"
     /\ OnlyText(gen.items))
        => /\ ret.v = TextUpdatesEach(gen.items)
           /\ gen.items = <<Text(1, <<Hello>>)>>
                => ret.v = <<[type |-> "text_delta", content |-> Str(Hello)]>>

\* "Hello", the two thinking texts, the empty token and the text that is not
\* UTF-8: three updates
C12_Witness ==
    /\ Returned("parse_agent_message_detailed") /\ gen.kind = "message"
    /\ gen.items = <<Text(1, <<Hello>>), Text(4, <<<<97>>, <<98>>>>),
                     Text(8, <<<<>>>>), Text(1, <<BadText>>)>>
    /\ Len(ret.v) = 3
    /\ ret.v[1] = [type |-> "text_delta", content |-> Str(Hello)]
    /\ ret.v[3] = [type |-> "thinking_delta", content |-> Str(<<98>>)]

\* the kinds and texts of the updates of the item u: those of a text wrapper, one
\* heartbeat, one tool_call_started, none for a gap or for NewUpdate
KindsOf(u) ==
    CASE u.k = "text" -> TextUpdates(u)
      [] u.k = "beat" -> <<[type |-> "heartbeat", content |-> Str(<<>>)]>>
      [] u.k = "tool" -> <<[type |-> "tool_call_started", content |-> Str(<<>>)]>>
      [] OTHER        -> <<>>

RECURSIVE KindsOfEach(_)
KindsOfEach(us) == IF us = <<>> THEN <<>> ELSE KindsOf(us[1]) \o KindsOfEach(Tail(us))

\* the texts of the events es, concatenated in sequence order
RECURSIVE ConcatText(_)
ConcatText(es) ==
    IF es = <<>> THEN <<>>
    ELSE (IF es[1].type \in {"text_delta", "thinking_delta", "token_delta"}
          THEN es[1].content.v ELSE <<>>)
         \o ConcatText(Tail(es))

\* C13: update order is wire order. Every occurrence of the top-level field 1
\* gives its updates, and the updates of the result are in the encoding order of
\* the fields they come from, across the occurrences and within one
\* InteractionUpdate; the texts concatenated in that order are the content.
C13_WireOrder ==
    (Returned("parse_agent_message_detailed") /\ gen.kind = "message")
        => LET exp == KindsOfEach(gen.items)
           IN  /\ Len(ret.v) = Len(exp)
               /\ \A i \in 1..Len(exp) :
                      /\ ret.v[i].type = exp[i].type
                      /\ exp[i].type \in {"text_delta", "thinking_delta", "token_delta"}
                            => ret.v[i].content = exp[i].content
               /\ ConcatText(ret.v) = ConcatText(exp)

\* a heartbeat and "Hello" in the first InteractionUpdate, "a" and "b" in the next
C13_Witness ==
    /\ Returned("parse_agent_message_detailed") /\ gen.kind = "message"
    /\ gen.items = <<Beat, Text(1, <<Hello>>), NewUpdate, Text(4, <<<<97>>, <<98>>>>)>>
    /\ Len(ret.v) = 4
    /\ ret.v[1].type = "heartbeat" /\ ret.v[2].type = "text_delta"
    /\ ret.v[4] = [type |-> "thinking_delta", content |-> Str(<<98>>)]
    /\ ConcatText(ret.v) = Hello \o <<97, 98>>

OnlyGaps(us) == \A i \in 1..Len(us) : us[i].k \in {"gap", "new"}

HasGap(us) == \E i \in 1..Len(us) : us[i].k = "gap"

RECURSIVE WithoutGaps(_)
WithoutGaps(us) ==
    IF us = <<>> THEN <<>>
    ELSE (IF us[1].k = "gap" THEN <<>> ELSE <<us[1]>>) \o WithoutGaps(Tail(us))

-----------------------------------------------------------------------------
(* SpecWide: parse_varint on runs of continuation bytes of any length       *)

MaxRun == 11

ContinuationBytes == {128, 129, 255}
LastBytes == {0, 1, 2, 127}

InitWide ==
    /\ Loaded
    /\ \E k \in 0..MaxRun, c \in ContinuationBytes, t \in LastBytes, pre \in Pads :
            /\ data = pre \o [i \in 1..k |-> c] \o <<t>>
            /\ offset = Len(pre)
            /\ gen = [kind |-> "wide", run |-> k, byte |-> c, last |-> t]
    /\ op = "none" /\ ret = None
    /\ NoStreams

SpecWide == InitWide /\ [][NextVarint]_vars

\* v < 2^64: at most 9 digits of 7 bits, or a tenth digit that is 1
Below2p64(v) == Len(v) <= 9 \/ (Len(v) = 10 /\ v[10] = 1)

\* C29: the value returned by parse_varint is below 2^64 for every buffer,
\* runs of more than ten continuation bytes included.
C29_Unsigned64 ==
    Returned("parse_varint") => Below2p64(ret[1])

\* the values of the runs of at most eight continuation bytes are below 2^63
C29_ShortRuns ==
    (Returned("parse_varint") /\ gen.kind = "wide" /\ gen.run <= 8)
        => Len(ret[1]) <= 9

-----------------------------------------------------------------------------
(* SpecInfo: the fields 1 to 4 of a tool-call update, decoded as a          *)
(* ToolCallStartedUpdate and as a PartialToolCallUpdate                     *)

\* call_id "c"; ToolCall { 8 (read): { 1: "a.ts" } }; the field 3 as "d", as "e",
\* as bytes that are not UTF-8 and as a varint; the field 4 as "m" and as "n"
InfoFields ==
    { BytesField(1, <<99>>),
      MsgField(2, <<MsgField(8, <<BytesField(1, <<97, 46, 116, 115>>)>>)>>),
      BytesField(3, <<100>>), BytesField(3, <<101>>), BytesField(3, BadText),
      VarintField(3, 1), BytesField(4, <<109>>), BytesField(4, <<110>>) }

InitInfo ==
    /\ Loaded
    /\ \E fs \in SeqsUpTo(InfoFields, MaxToolFields) :
            /\ data = EncodeFields(fs)
            /\ gen = [kind |-> "info", fields |-> fs]
    /\ offset = 0 /\ op = "none" /\ ret = None
    /\ NoStreams

NextInfo == CallParseToolCallInfo \/ CallParsePartialToolCall

SpecInfo == InitInfo /\ [][NextInfo]_vars

\* the texts of the length-delimited fields of the number n that decode, in order
RECURSIVE TextsOfNumber(_, _)
TextsOfNumber(fs, n) ==
    IF fs = <<>> THEN <<>>
    ELSE (IF fs[1].num = n /\ fs[1].wt = 2 /\ decode_utf8(fs[1].val).ok
          THEN <<Str(fs[1].val)>> ELSE <<>>) \o TextsOfNumber(Tail(fs), n)

\* the entry of the key is the last of the texts, and there is none without a text
EntryIs(info, key, texts) ==
    IF texts = <<>> THEN key \notin DOMAIN info
    ELSE key \in DOMAIN info /\ info[key] = texts[Len(texts)]

HasToolCall(fs) == \E i \in 1..Len(fs) : fs[i].num = 2

\* C28: the fields of the two kinds of tool-call update. A partial_tool_call
\* update has the tool name of its ToolCall and no args; its args_delta is the
\* field 3 and its model_call_id the field 4. A tool_call_started or
\* tool_call_completed update has the name and the args of its ToolCall; its
\* model_call_id is the field 3, and it has no args_delta.
C28_UpdateFields ==
    /\ (Returned("parse_partial_tool_call") /\ gen.kind = "info")
          => /\ "args" \notin DOMAIN ret.v
             /\ EntryIs(ret.v, "args_delta", TextsOfNumber(gen.fields, 3))
             /\ EntryIs(ret.v, "model_call_id", TextsOfNumber(gen.fields, 4))
             /\ EntryIs(ret.v, "call_id", TextsOfNumber(gen.fields, 1))
             /\ IF HasToolCall(gen.fields)
                THEN "tool_name" \in DOMAIN ret.v /\ ret.v["tool_name"] = "read"
                ELSE "tool_name" \notin DOMAIN ret.v
    /\ (Returned("parse_tool_call_info") /\ gen.kind = "info")
          => /\ "args_delta" \notin DOMAIN ret.v
             /\ EntryIs(ret.v, "model_call_id", TextsOfNumber(gen.fields, 3))
             /\ EntryIs(ret.v, "call_id", TextsOfNumber(gen.fields, 1))
             /\ IF HasToolCall(gen.fields)
                THEN /\ "tool_name" \in DOMAIN ret.v /\ ret.v["tool_name"] = "read"
                     /\ "args" \in DOMAIN ret.v
                     /\ ret.v["args"] = ("filePath" :> Str(<<97, 46, 116, 115>>))
                ELSE "tool_name" \notin DOMAIN ret.v /\ "args" \notin DOMAIN ret.v

\* a partial update with a ToolCall, the field 3 and the field 4
C28_Witness ==
    /\ Returned("parse_partial_tool_call") /\ gen.kind = "info"
    /\ Len(gen.fields) = 3
    /\ gen.fields[1].num = 2 /\ gen.fields[2] = BytesField(3, <<100>>)
    /\ gen.fields[3] = BytesField(4, <<109>>)
    /\ ret.v = Put(Put(Put(EmptyDict, "tool_name", "read"), "args_delta", Str(<<100>>)),
                   "model_call_id", Str(<<109>>))

-----------------------------------------------------------------------------
(* SpecSignal: InteractionUpdates with the fields 13 and 14 in every wire   *)
(* type                                                                    *)

Zeros(n) == [i \in 1..n |-> 0]

\* heartbeat as the varints 0 and 300, as the bytes "" and "x", as fixed64 and as
\* fixed32; turn_ended as a varint, as bytes and as fixed64; and the text "Hello"
SignalFields ==
    { VarintField(13, 0), VarintField(13, 300), BytesField(13, <<>>),
      BytesField(13, <<120>>), [num |-> 13, wt |-> 1, val |-> Zeros(8)],
      [num |-> 13, wt |-> 5, val |-> Zeros(4)],
      VarintField(14, 1), BytesField(14, <<>>), [num |-> 14, wt |-> 1, val |-> Zeros(8)],
      MsgField(1, <<BytesField(1, Hello)>>) }

\* AgentServerMessage { 1: InteractionUpdate { the fields } }
InitSignal ==
    /\ Loaded
    /\ \E fs \in SeqsUpTo(SignalFields, MaxToolFields) :
            /\ data = EncodeFields(<<MsgField(1, fs)>>)
            /\ gen = [kind |-> "signal", fields |-> fs]
    /\ offset = 0 /\ op = "none" /\ ret = None
    /\ NoStreams

SpecSignal == InitSignal /\ [][NextUpdate]_vars

\* the events of the type, and the fields of the number
EventsOfType(es, type) == {i \in 1..Len(es) : es[i].type = type}
FieldsOfNumber(fs, n) == {i \in 1..Len(fs) : fs[i].num = n}

\* C27: presence alone. Each field 13 of an InteractionUpdate gives one heartbeat
\* update and each field 14 one turn_ended update, without payload, whatever the
\* wire type and the content of the field.
C27_PresenceAlone ==
    (Returned("parse_agent_message_detailed") /\ gen.kind = "signal")
        => /\ Cardinality(EventsOfType(ret.v, "heartbeat"))
                 = Cardinality(FieldsOfNumber(gen.fields, 13))
           /\ Cardinality(EventsOfType(ret.v, "turn_ended"))
                 = Cardinality(FieldsOfNumber(gen.fields, 14))
           /\ \A i \in EventsOfType(ret.v, "heartbeat") \cup EventsOfType(ret.v, "turn_ended") :
                 ret.v[i].content = None

\* the same for the fields 13 and 14 that are varints or length-delimited
C27_VarintOrBytes ==
    (Returned("parse_agent_message_detailed") /\ gen.kind = "signal")
        => /\ Cardinality(EventsOfType(ret.v, "heartbeat"))
                 = Cardinality({i \in FieldsOfNumber(gen.fields, 13) :
                                    gen.fields[i].wt \in {0, 2}})
           /\ Cardinality(EventsOfType(ret.v, "turn_ended"))
                 = Cardinality({i \in FieldsOfNumber(gen.fields, 14) :
                                    gen.fields[i].wt \in {0, 2}})

-----------------------------------------------------------------------------
(* The handlers of the addon: configure, request. A path and a pattern are *)
(* sequences of words, and `x in endpoint` holds when the words of x are   *)
(* consecutive words of the endpoint. A logged line is its kind and the    *)
(* number it shows (0 when it shows none).                                 *)

MaxRequests == 10

In(x, endpoint) ==
    \E i \in 0..(Len(endpoint) - Len(x)) : SubSeq(endpoint, i + 1, i + Len(x)) = x

NOISE_ENDPOINTS ==
    { <<"SyncMerkleSubtreeV2">>, <<"FastUpdateFileV2">>, <<"FastRepoInitHandshakeV2">>,
      <<"FastRepoSyncComplete">>, <<"v1", "/", "traces">>, <<"GetTeamHooks">>,
      <<"GetTeamAdminSettingsOrEmptyIfNotInTeam">>, <<"GetUserPrivacyMode">>,
      <<"GetTeamCommands">>, <<"GetCliDownloadUrl">> }

AI_ENDPOINTS ==
    { <<"GetUsableModels">>, <<"GetDefaultModelForCli">>, <<"AgentService">>,
      <<"RunSSE">>, <<"BidiAppend">>, <<"BidiService">>, <<"NameAgent">>,
      <<"StreamChat">>, <<"Conversation">> }

FilterModes == {"smart", "ai", "all", "quiet"}

Line(kind, n) == [kind |-> kind, n |-> n]

\* dict.get(k, default)
Get(d, k, default) == IF k \in DOMAIN d THEN d[k] ELSE default

\* lines 558-579
should_show(self, endpoint) ==
    IF self.filter_mode = "all" THEN TRUE
    ELSE IF self.filter_mode = "quiet" THEN FALSE
    ELSE LET is_noise == \E noise \in NOISE_ENDPOINTS : In(noise, endpoint)
             is_ai    == \E ai \in AI_ENDPOINTS : In(ai, endpoint)
         IN  IF self.filter_mode = "ai" THEN is_ai
             ELSE IF self.filter_mode = "smart" THEN ~is_noise
             ELSE TRUE

\* lines 581-585: the addon after the call and the lines it printed
log_filtered_summary(self) ==
    IF self.filtered_count > 0
    THEN [self  |-> [self EXCEPT !.filtered_count = 0],
          lines |-> <<Line("summary", self.filtered_count)>>]
    ELSE [self |-> self, lines |-> <<>>]

\* lines 885-926: nothing for less than 5 bytes, else the size and the output of
\* the analysis (of the script, or the hex preview)
analyze_message(length) ==
    IF length < 5 THEN <<>> ELSE <<Line("size", length), Line("analysis", 0)>>

\* the same without the summary of every tenth request: the count is only reset
\* by a request that is shown
request_filtered_nosummary(self) ==
    [self |-> [self EXCEPT !.filtered_count = @ + 1], lines |-> <<>>]

\* lines 624-630: a request that is not shown is counted, and every tenth one
\* prints the summary
request_filtered(self) ==
    LET counted == [self EXCEPT !.filtered_count = @ + 1]
    IN  IF counted.filtered_count % 10 = 0 THEN log_filtered_summary(counted)
        ELSE [self |-> counted, lines |-> <<>>]

\* lines 632-657: the details of a request that is shown
request_shown(self, req_id, endpoint, headers, length) ==
    LET summary == log_filtered_summary(self)
    IN  [self  |-> summary.self,
         lines |-> summary.lines
                   \o <<Line("request", req_id), Line("time", 0), Line("method", 0),
                        Line("url", 0)>>
                   \o (IF "authorization" \in headers THEN <<Line("auth", 0)>> ELSE <<>>)
                   \o (IF "x-cursor-checksum" \in headers
                       THEN <<Line("checksum", 0)>> ELSE <<>>)
                   \o (IF length > 0
                       THEN (IF In(<<"BidiAppend">>, endpoint) \/ In(<<"RunSSE">>, endpoint)
                             THEN <<Line("ai_conversation", 0)>> ELSE <<>>)
                            \o analyze_message(length)
                       ELSE <<>>)]

\* lines 601-657: the request of a new flow s, with the host, path, headers and
\* body length of the request
request(s, is_cursor_api, endpoint, headers, length) ==
    /\ phase[s] \in {"idle", "done"}
    /\ addon.request_count < MaxRequests
    /\ phase' = [phase EXCEPT ![s] = "headers"]
    /\ IF ~is_cursor_api
       THEN /\ metadata' = [metadata EXCEPT ![s] = EmptyDict]
            /\ printed' = <<>>
            /\ UNCHANGED addon
       ELSE LET req_id  == addon.request_count + 1
                counted == [addon EXCEPT !.request_count = req_id]
                is_ai_conversation ==
                    \/ In(<<"RunSSE">>, endpoint) \/ In(<<"BidiAppend">>, endpoint)
                    \/ In(<<"BidiService">>, endpoint)
                show    == should_show(counted, endpoint) \/ is_ai_conversation
                first   == (IF addon.debug THEN <<Line("debug", req_id)>> ELSE <<>>)
                           \o (IF is_ai_conversation
                               THEN <<Line("conversation", 0)>> ELSE <<>>)
                rest    == IF show
                           THEN request_shown(counted, req_id, endpoint, headers, length)
                           ELSE request_filtered(counted)
            IN  /\ metadata' = [metadata EXCEPT ![s] =
                       Put(Put(EmptyDict, "cursor_req_id", req_id), "cursor_show", show)]
                /\ addon' = rest.self
                /\ printed' = first \o rest.lines
    /\ UNCHANGED <<wire, fed, emitted, forwarded, callVars, tableVars>>

\* lines 521-541: the options named in updates take the values given; an unknown
\* filter mode prints a warning and becomes smart
configure(updates, cursor_filter, cursor_debug) ==
    /\ updates # {}
    /\ LET known == cursor_filter \in FilterModes
       IN  /\ addon' = [addon EXCEPT
                  !.filter_mode = IF "cursor_filter" \in updates
                                  THEN (IF known THEN cursor_filter ELSE "smart")
                                  ELSE @,
                  !.debug = IF "cursor_debug" \in updates THEN cursor_debug ELSE @]
           /\ printed' = IF "cursor_filter" \in updates /\ ~known
                         THEN <<Line("warning", 0)>> ELSE <<>>
    /\ UNCHANGED <<streamVars, callVars, tableVars>>

-----------------------------------------------------------------------------
(* Spec: the streaming responses. responseheaders installs modify_stream   *)
(* on a streaming flow; the transport then hands the body to it chunk by   *)
(* chunk, cut at any byte.                                                 *)

MaxFrames == 2
MaxChunks == 3

\* AgentServerMessage { 1: InteractionUpdate { kind: { 1: text } } }
TextMsg(kind, text) ==
    EncodeFields(<<MsgField(1, <<MsgField(kind, <<BytesField(1, text)>>)>>)>>)

\* AgentServerMessage { 1: InteractionUpdate { 13: 0 } }
HeartbeatMsg == EncodeFields(<<MsgField(1, <<VarintField(13, 0)>>)>>)

\* the last one is a trailer whose payload has the bytes of a data frame
StreamFrames ==
    { Frame(0, TextMsg(1, <<97>>)), Frame(0, HeartbeatMsg), Frame(128, HeartbeatMsg),
      Frame(0, <<>>), Frame(128, Frame(0, HeartbeatMsg)) }

RECURSIVE Flatten(_)
Flatten(ss) == IF ss = <<>> THEN <<>> ELSE ss[1] \o Flatten(Tail(ss))

\* the response bodies: up to MaxFrames complete frames
Bodies == {Flatten(fr) : fr \in SeqsUpTo(StreamFrames, MaxFrames)}

\* one response, on the flow s1; the flow s2 has no response
Init ==
    /\ Loaded
    /\ NoCall
    /\ metadata = [s \in Streams |-> EmptyDict]
    /\ phase = [s \in Streams |-> IF s = "s1" THEN "headers" ELSE "closed"]
    /\ \E b \in Bodies : wire = [s \in Streams |-> IF s = "s1" THEN b ELSE <<>>]
    /\ fed = [s \in Streams |-> <<>>]
    /\ emitted = [s \in Streams |-> <<>>]
    /\ forwarded = [s \in Streams |-> <<>>]

\* lines 666-744. is_cursor_api and is_streaming are computed from the host, the
\* content type and the path of the flow.
responseheaders(s) ==
    /\ phase[s] = "headers"
    /\ \E is_cursor_api \in BOOLEAN, is_streaming \in BOOLEAN :
         IF is_cursor_api /\ is_streaming
         THEN /\ metadata' = [metadata EXCEPT ![s] =
                    Put(Put(Put(Put(Put(Put(@,
                        "cursor_streaming", TRUE),
                        "cursor_stream_bytes", 0),
                        "cursor_stream_chunks", 0),
                        "cursor_stream_text", <<>>),
                        "cursor_stream_events", <<>>),
                        "cursor_raw_toolcalls", <<>>)]
              /\ phase' = [phase EXCEPT ![s] = "streaming"]
              /\ printed' =
                    (IF Get(metadata[s], "cursor_show", TRUE)
                     THEN <<Line("streaming_response", Get(metadata[s], "cursor_req_id", 0)),
                            Line("status", 0), Line("content_type", 0),
                            Line("stream_active", 0)>>
                     ELSE <<>>)
                    \o (IF addon.debug THEN <<Line("debug_streaming", 0)>> ELSE <<>>)
         ELSE /\ phase' = [phase EXCEPT ![s] = "buffered"]
              /\ printed' = <<>>
              /\ UNCHANGED metadata
    /\ UNCHANGED <<wire, fed, emitted, forwarded, callVars, tableVars, addon>>

\* modify_stream with the accumulators of one flow for all of them: the events and
\* texts go to the lists of the flow `shared`
modify_stream_shared(s, n) ==
    /\ phase[s] = "streaming"
    /\ n \in 1..Len(wire[s])
    /\ metadata[s].cursor_stream_chunks + 1 < MaxChunks \/ n = Len(wire[s])
    /\ LET chunk  == SubSeq(wire[s], 1, n)
           shared == CHOOSE t \in Streams : phase[t] = "streaming"
           r      == frame_loop(chunk, 0,
                         [events |-> metadata[shared].cursor_stream_events,
                          text   |-> metadata[shared].cursor_stream_text])
           counted == [metadata EXCEPT ![s] =
                          [@ EXCEPT !.cursor_stream_bytes = @ + Len(chunk),
                                    !.cursor_stream_chunks = @ + 1]]
       IN  /\ metadata' = [counted EXCEPT ![shared] =
                  [@ EXCEPT !.cursor_stream_events = r.events,
                            !.cursor_stream_text = r.text]]
           /\ wire' = [wire EXCEPT ![s] = SubSeq(@, n + 1, Len(@))]
           /\ fed' = [fed EXCEPT ![s] = @ \o chunk]
           /\ emitted' = [emitted EXCEPT ![s] = @ \o SubSeq(chunk, 1, r.offset)]
           /\ forwarded' = [forwarded EXCEPT ![s] = @ \o chunk]
    /\ printed' = <<>>
    /\ UNCHANGED <<phase, callVars, tableVars, addon>>

\* modify_stream returning the bytes of the frames it has parsed
modify_stream_parsedonly(s, n) ==
    /\ phase[s] = "streaming"
    /\ n \in 1..Len(wire[s])
    /\ metadata[s].cursor_stream_chunks + 1 < MaxChunks \/ n = Len(wire[s])
    /\ LET chunk == SubSeq(wire[s], 1, n)
           md    == metadata[s]
           r     == frame_loop(chunk, 0, [events |-> md.cursor_stream_events,
                                          text   |-> md.cursor_stream_text])
       IN  /\ metadata' = [metadata EXCEPT ![s] =
                  [md EXCEPT !.cursor_stream_bytes = @ + Len(chunk),
                             !.cursor_stream_chunks = @ + 1,
                             !.cursor_stream_events = r.events,
                             !.cursor_stream_text = r.text]]
           /\ wire' = [wire EXCEPT ![s] = SubSeq(@, n + 1, Len(@))]
           /\ fed' = [fed EXCEPT ![s] = @ \o chunk]
           /\ emitted' = [emitted EXCEPT ![s] = @ \o SubSeq(chunk, 1, r.offset)]
           /\ forwarded' = [forwarded EXCEPT ![s] = @ \o SubSeq(chunk, 1, r.offset)]
    /\ printed' = <<>>
    /\ UNCHANGED <<phase, callVars, tableVars, addon>>

\* lines 709-739, called with the next n bytes of the body. The last chunk the
\* bound allows carries the rest of the body.
modify_stream(s, n) ==
    /\ phase[s] = "streaming"
    /\ n \in 1..Len(wire[s])
    /\ metadata[s].cursor_stream_chunks + 1 < MaxChunks \/ n = Len(wire[s])
    /\ LET chunk == SubSeq(wire[s], 1, n)
           md    == metadata[s]
           r     == frame_loop(chunk, 0, [events |-> md.cursor_stream_events,
                                          text   |-> md.cursor_stream_text])
       IN  /\ metadata' = [metadata EXCEPT ![s] =
                  [md EXCEPT !.cursor_stream_bytes = @ + Len(chunk),
                             !.cursor_stream_chunks = @ + 1,
                             !.cursor_stream_events = r.events,
                             !.cursor_stream_text = r.text]]
           /\ wire' = [wire EXCEPT ![s] = SubSeq(@, n + 1, Len(@))]
           /\ fed' = [fed EXCEPT ![s] = @ \o chunk]
           /\ emitted' = [emitted EXCEPT ![s] = @ \o SubSeq(chunk, 1, r.offset)]
           /\ forwarded' = [forwarded EXCEPT ![s] = @ \o chunk]
    /\ printed' = <<>>
    /\ UNCHANGED <<phase, callVars, tableVars, addon>>

\* lines 761-843: the summary of a streaming response. The dump of the tool
\* calls (toolcall_dump_file) is off
stream_complete(md) ==
    LET events == Get(md, "cursor_stream_events", <<>>)
        tools  == {i \in 1..Len(events) : events[i].type \in
                       {"tool_call_started", "tool_call_completed", "partial_tool_call"}}
        thinking == {i \in 1..Len(events) : events[i].type = "thinking_delta"}
    IN  <<Line("stream_complete", Get(md, "cursor_req_id", 0)),
          Line("chunks", Get(md, "cursor_stream_chunks", 0)),
          Line("total_size", Get(md, "cursor_stream_bytes", 0))>>
        \o (IF events # <<>> THEN <<Line("events", Len(events))>> ELSE <<>>)
        \o (IF tools # {} THEN <<Line("tool_calls", Cardinality(tools))>> ELSE <<>>)
        \o (IF thinking # {} THEN <<Line("thinking", 0)>> ELSE <<>>)
        \o (IF Get(md, "cursor_stream_text", <<>>) # <<>>
            THEN <<Line("ai_response", 0)>> ELSE <<>>)
        \o <<Line("stream_finished", 0)>>

\* lines 746-883: the end of the response of the flow s, once its body has been
\* delivered; length is the length of the buffered body, which goes to
\* analyze_message (the SSE and gRPC-Web analysers log lines of the same kinds)
response(s, is_cursor_api, length) ==
    /\ phase[s] \in {"streaming", "buffered"}
    /\ wire[s] = <<>>
    /\ phase' = [phase EXCEPT ![s] = "done"]
    /\ printed' =
          IF ~is_cursor_api \/ ~Get(metadata[s], "cursor_show", TRUE) THEN <<>>
          ELSE IF Get(metadata[s], "cursor_streaming", FALSE)
          THEN stream_complete(metadata[s])
          ELSE <<Line("response", Get(metadata[s], "cursor_req_id", 0)),
                 Line("status", 0), Line("content_type", 0)>>
               \o (IF length > 0 THEN analyze_message(length) ELSE <<>>)
    /\ UNCHANGED <<metadata, wire, fed, emitted, forwarded, callVars, tableVars, addon>>

BodyLengths == {0, 3, 8}

Next ==
    \E s \in Streams :
        \/ responseheaders(s)
        \/ \E n \in 1..Len(wire[s]) : modify_stream(s, n)
        \/ \E is_cursor_api \in BOOLEAN, length \in BodyLengths :
               response(s, is_cursor_api, length)

Spec == Init /\ [][Next]_vars

\* the chunk the step feeds to the stream s
ChunkFed(s) == SubSeq(wire[s], 1, Len(wire[s]) - Len(wire'[s]))

\* C30: the stream modifier is an observer. Every call returns its chunk byte
\* for byte, also when the chunk does not parse, and counts it: the bytes sent on
\* are the bytes received, the byte counter of the stream is the sum of the
\* lengths of its chunks and the chunk counter is the number of its chunks.
C30_PureObserver ==
    /\ [][\A s \in Streams :
            wire'[s] # wire[s]
              => /\ forwarded'[s] = forwarded[s] \o ChunkFed(s)
                 /\ metadata'[s].cursor_stream_bytes
                       = metadata[s].cursor_stream_bytes + Len(ChunkFed(s))
                 /\ metadata'[s].cursor_stream_chunks
                       = metadata[s].cursor_stream_chunks + 1]_vars
    /\ [](\A s \in Streams :
            /\ forwarded[s] = fed[s]
            /\ Get(metadata[s], "cursor_streaming", FALSE)
                  => /\ metadata[s].cursor_stream_bytes = Len(fed[s])
                     /\ fed[s] = <<>> => metadata[s].cursor_stream_chunks = 0)

\* a body delivered in MaxChunks chunks, some of them cut inside a frame, so
\* that the parser has dropped bytes; all of them have been sent on and counted
C30_Witness ==
    /\ phase["s1"] = "streaming" /\ wire["s1"] = <<>>
    /\ metadata["s1"].cursor_stream_chunks = MaxChunks
    /\ emitted["s1"] # fed["s1"]
    /\ forwarded["s1"] = fed["s1"]
    /\ metadata["s1"].cursor_stream_bytes = Len(fed["s1"])

\* modify_stream keeps nothing of a chunk for the next call: offset and data are
\* locals, and the bytes after the last complete frame of a chunk are not stored
\* in flow.metadata or anywhere else.
retained(s) == <<>>

\* the events of one call of modify_stream on a whole body
WholeCall(body) == frame_loop(body, 0, [events |-> <<>>, text |-> <<>>])

AllFed(s) == phase[s] = "streaming" /\ wire[s] = <<>>

\* C1: chunking invariance. Once a body of complete frames has been fed in two or
\* more chunks, the events decoded are those of feeding the body in one call.
C1_ChunkingInvariance ==
    \A s \in Streams :
        (AllFed(s) /\ metadata[s].cursor_stream_chunks >= 2)
            => metadata[s].cursor_stream_events = WholeCall(fed[s]).events

\* C2: no fed byte is lost. After any sequence of calls, the bytes of the frames
\* taken so far followed by the retained remainder are the bytes fed so far.
C2_NoByteLost ==
    \A s \in Streams :
        phase[s] = "streaming" => emitted[s] \o retained(s) = fed[s]

\* the payloads of the data frames (bit 0x80 of the flags clear) of a body of
\* complete frames, in order
RECURSIVE DataPayloads(_)
DataPayloads(body) ==
    IF Len(body) < 5 THEN <<>>
    ELSE LET length == body[3] * 65536 + body[4] * 256 + body[5]
             rest   == SubSeq(body, 6 + length, Len(body))
         IN  IF body[1] >= 128 THEN DataPayloads(rest)
             ELSE <<SubSeq(body, 6, 5 + length)>> \o DataPayloads(rest)

RECURSIVE EventsOf(_)
EventsOf(payloads) ==
    IF payloads = <<>> THEN <<>>
    ELSE parse_agent_message_detailed(payloads[1]).v \o EventsOf(Tail(payloads))

\* C15: trailers are opaque. Once a body of complete frames has been fed, the
\* events of the stream are those of the payloads of its data frames, in order:
\* every data frame is decoded, those after a trailer too, and the payload of a
\* trailer adds no event.
C15_TrailerOpaque ==
    \A s \in Streams :
        AllFed(s) => metadata[s].cursor_stream_events = EventsOf(DataPayloads(fed[s]))

-----------------------------------------------------------------------------
(* SpecStreams: two streaming responses whose chunks arrive interleaved    *)

\* a heartbeat frame; a text frame and a heartbeat frame
StreamBodies ==
    { Frame(0, HeartbeatMsg), Frame(0, TextMsg(1, <<97>>)) \o Frame(0, HeartbeatMsg) }

InitStreams ==
    /\ Loaded
    /\ NoCall
    /\ metadata = [s \in Streams |-> EmptyDict]
    /\ phase = [s \in Streams |-> "headers"]
    /\ wire \in [Streams -> StreamBodies]
    /\ fed = [s \in Streams |-> <<>>]
    /\ emitted = [s \in Streams |-> <<>>]
    /\ forwarded = [s \in Streams |-> <<>>]

SpecStreams == InitStreams /\ [][Next]_vars

\* the state of a stream after the chunk, the stream taken alone: the counters
\* count the chunk, the lists get the events and the texts of the chunk
FedAlone(md, chunk) ==
    [md EXCEPT !.cursor_stream_bytes = @ + Len(chunk),
               !.cursor_stream_chunks = @ + 1,
               !.cursor_stream_events = @ \o WholeCall(chunk).events,
               !.cursor_stream_text = @ \o WholeCall(chunk).text]

\* C16: stream isolation. A chunk of one stream changes the state of that stream
\* only, and changes it as it does when the stream is processed alone: by the
\* chunk and the stream's own state, whatever the other streams received before.
C16_StreamIsolation ==
    [][\A s \in Streams :
          IF wire'[s] # wire[s]
          THEN metadata'[s] = FedAlone(metadata[s], ChunkFed(s))
          ELSE phase'[s] = phase[s] => metadata'[s] = metadata[s]]_vars

\* both streams have received two chunks or more and hold different events
C16_Witness ==
    /\ \A s \in Streams : phase[s] = "streaming" /\ wire[s] = <<>>
                          /\ metadata[s].cursor_stream_chunks >= 2
    /\ metadata["s1"].cursor_stream_events # <<>>
    /\ metadata["s2"].cursor_stream_events = <<>>
    /\ metadata["s1"].cursor_stream_bytes # metadata["s2"].cursor_stream_bytes

-----------------------------------------------------------------------------
(* SpecPartial: a response that streams the arguments of tool calls        *)

\* AgentServerMessage { 1: InteractionUpdate { 7: PartialToolCallUpdate {
\*     1: call_id, 3: args_text_delta } } }
PartialMsg(call, delta) ==
    EncodeFields(<<MsgField(1, <<MsgField(7, <<BytesField(1, call),
                                              BytesField(3, delta)>>)>>)>>)

\* the call ids "1" and "2"
CallIds == {<<49>>, <<50>>}

\* the fragments streamed: {"a" and :1} for the call 1, {} for the call 2
PartialItems ==
    { [call |-> <<49>>, delta |-> <<123, 34, 97, 34>>],
      [call |-> <<49>>, delta |-> <<58, 49, 125>>],
      [call |-> <<50>>, delta |-> <<123, 125>>] }

PartialBody(ps) == Flatten([i \in 1..Len(ps) |-> Frame(0, PartialMsg(ps[i].call, ps[i].delta))])

\* one response on the flow s1, of up to MaxFrames partial_tool_call frames
InitPartial ==
    /\ Loaded
    /\ data = <<>> /\ offset = 0 /\ op = "none" /\ ret = None
    /\ \E ps \in SeqsUpTo(PartialItems, MaxFrames) :
          /\ gen = [kind |-> "partials", items |-> ps]
          /\ wire = [s \in Streams |-> IF s = "s1" THEN PartialBody(ps) ELSE <<>>]
    /\ metadata = [s \in Streams |-> EmptyDict]
    /\ phase = [s \in Streams |-> IF s = "s1" THEN "headers" ELSE "closed"]
    /\ fed = [s \in Streams |-> <<>>]
    /\ emitted = [s \in Streams |-> <<>>]
    /\ forwarded = [s \in Streams |-> <<>>]

SpecPartial == InitPartial /\ [][Next]_vars

\* the fragments of the call streamed by the server, joined in the order sent
RECURSIVE Streamed(_, _)
Streamed(ps, call) ==
    IF ps = <<>> THEN <<>>
    ELSE (IF ps[1].call = call THEN ps[1].delta ELSE <<>>) \o Streamed(Tail(ps), call)

\* the args_delta of the partial_tool_call events of the call, joined in the
\* order of the accumulator
RECURSIVE Reconstructed(_, _)
Reconstructed(events, call) ==
    IF events = <<>> THEN <<>>
    ELSE (IF /\ events[1].type = "partial_tool_call"
             /\ "call_id" \in DOMAIN events[1].content
             /\ events[1].content["call_id"] = Str(call)
             /\ "args_delta" \in DOMAIN events[1].content
          THEN events[1].content["args_delta"].v ELSE <<>>)
         \o Reconstructed(Tail(events), call)

\* C17: partial reconstruction. Once the frames of a response have been fed, in
\* whatever chunks, the args_delta of the accumulated partial_tool_call events of
\* each call id, joined in accumulator order, are the argument string streamed
\* for that call.
C17_PartialReconstruction ==
    \A s \in Streams : \A call \in CallIds :
        (AllFed(s) /\ s = "s1")
            => Reconstructed(metadata[s].cursor_stream_events, call)
                   = Streamed(gen.items, call)

\* the same with every frame whole within a chunk: no chunk boundary inside a
\* frame means the events are those of the whole body
C17_WholeFrames ==
    \A s \in Streams : \A call \in CallIds :
        (AllFed(s) /\ s = "s1"
            /\ metadata[s].cursor_stream_events = WholeCall(fed[s]).events)
            => Reconstructed(metadata[s].cursor_stream_events, call)
                   = Streamed(gen.items, call)

-----------------------------------------------------------------------------
(* SpecLoops: the scan loop of parse_proto_fields and the frame loop of    *)
(* modify_stream, one iteration at a step                                  *)

LoopInputs == DecodeInputs \cup Bodies

InitLoops ==
    /\ Loaded
    /\ data \in LoopInputs
    /\ offset = 0
    /\ \/ op = "scan" /\ ret = <<>>
       \/ op = "frames" /\ ret = [events |-> <<>>, text |-> <<>>]
    /\ gen = None
    /\ NoStreams

\* lines 136-159: the test of the while and one iteration; ret is `fields`
ScanStep ==
    /\ op = "scan"
    /\ IF offset < Len(data)
       THEN LET it == ScanIter(data, offset, ret)
            IN  /\ ret' = it.fields
                /\ offset' = it.offset
                /\ op' = IF it.brk THEN "scan_done" ELSE "scan"
       ELSE /\ op' = "scan_done"
            /\ UNCHANGED <<offset, ret>>
    /\ UNCHANGED <<data, gen, streamVars, tableVars, addonVars>>

\* lines 716-735: the test of the while and one iteration; ret is the two lists
FrameStep ==
    /\ op = "frames"
    /\ IF offset + 5 <= Len(data)
       THEN LET st == frame_at(data, offset, ret)
            IN  /\ ret' = st.acc
                /\ offset' = st.offset
                /\ op' = IF st.stop THEN "frames_done" ELSE "frames"
       ELSE /\ op' = "frames_done"
            /\ UNCHANGED <<offset, ret>>
    /\ UNCHANGED <<data, gen, streamVars, tableVars, addonVars>>

NextLoops == ScanStep \/ FrameStep

\* the interpreter runs the next iteration of a loop that has not ended
SpecLoops == InitLoops /\ [][NextLoops]_vars /\ WF_vars(NextLoops)

\* C24: termination. An iteration that does not leave its loop moves the offset
\* forward by one byte or more, and on every input the loop ends: neither loop
\* waits for more data.
C24_Termination ==
    /\ [][op' = op => offset' > offset]_vars
    /\ <>(op \in {"scan_done", "frames_done"})

\* the frame loop has ended after a trailer and a data frame (C24_Witness); the
\* scan loop has ended at an offset past three fields
C24_Witness ==
    /\ op = "frames_done" /\ data = Frame(128, HeartbeatMsg) \o Frame(0, HeartbeatMsg)
    /\ offset = Len(data) /\ Len(ret.events) = 1

C24_WitnessScan ==
    /\ op = "scan_done" /\ Len(ret) = 3 /\ offset = Len(data)

-----------------------------------------------------------------------------
(* SpecRequest: requests and their responses under every filter mode       *)

Endpoints ==
    { <<"/", "agent.v1.", "AgentService", "/", "RunSSE">>,
      <<"/", "aiserver.v1.", "BidiService", "/", "BidiAppend">>,
      <<"/", "aiserver.v1.", "AiService", "/", "GetUsableModels">>,
      <<"/", "aiserver.v1.", "RepositoryService", "/", "SyncMerkleSubtreeV2">>,
      <<"/", "auth", "/", "full_stripe_profile">> }

HeaderSets == { {}, {"authorization", "x-cursor-checksum"} }

\* the options as mitmproxy may set them; loud is not a filter mode
FilterOptions == FilterModes \cup {"loud"}

\* one connection, whose flows follow one another; no body is streamed
InitRequest ==
    /\ Loaded
    /\ NoCall
    /\ metadata = [s \in Streams |-> EmptyDict]
    /\ phase = [s \in Streams |-> IF s = "s1" THEN "idle" ELSE "closed"]
    /\ wire = [s \in Streams |-> <<>>]
    /\ fed = [s \in Streams |-> <<>>]
    /\ emitted = [s \in Streams |-> <<>>]
    /\ forwarded = [s \in Streams |-> <<>>]

NextRequest ==
    \/ \E updates \in SUBSET {"cursor_filter", "cursor_debug"},
          cursor_filter \in FilterOptions, cursor_debug \in BOOLEAN :
              configure(updates, cursor_filter, cursor_debug)
    \/ \E s \in Streams :
        \/ \E is_cursor_api \in BOOLEAN, endpoint \in Endpoints,
              headers \in HeaderSets, length \in BodyLengths :
                  request(s, is_cursor_api, endpoint, headers, length)
        \/ responseheaders(s)
        \/ \E is_cursor_api \in BOOLEAN, length \in BodyLengths :
               response(s, is_cursor_api, length)

SpecRequest == InitRequest /\ [][NextRequest]_vars

\* the lines that show a request or a response, as opposed to the count of the
\* requests filtered
DetailKinds ==
    {"conversation", "request", "time", "method", "url", "auth", "checksum",
     "ai_conversation", "size", "analysis", "streaming_response", "status",
     "content_type", "stream_active", "stream_complete", "chunks", "total_size",
     "events", "tool_calls", "thinking", "ai_response", "stream_finished", "response"}

Details(lines) == {i \in 1..Len(lines) : lines[i].kind \in DetailKinds}

\* the step is the request of a new flow s
RequestStep(s) == phase[s] \in {"idle", "done"} /\ phase'[s] = "headers"

\* the step is responseheaders or response on the flow s
ResponseStep(s) == phase[s] \in {"headers", "streaming", "buffered"} /\ phase'[s] # phase[s]

\* C21: quiet mode only counts. With the filter mode quiet (and debug off), the
\* request handler marks the flow of every Cursor API request, whatever its
\* endpoint, as not shown and logs no line of details, and the handlers of the
\* response of a flow marked so log no line of details either.
C21_QuietOnlyCounts ==
    [][\A s \in Streams :
          /\ (RequestStep(s) /\ addon.filter_mode = "quiet" /\ ~addon.debug)
                => /\ Details(printed') = {}
                   /\ "cursor_show" \in DOMAIN metadata'[s]
                         => ~metadata'[s]["cursor_show"]
          /\ (ResponseStep(s) /\ ~Get(metadata[s], "cursor_show", TRUE))
                => Details(printed') = {}]_vars

\* the summary lines among the lines, and the first line of the details of a request
Summaries(lines) == {i \in 1..Len(lines) : lines[i].kind = "summary"}
RequestLines(lines) == {i \in 1..Len(lines) : lines[i].kind = "request"}

\* the request of the step was made to the Cursor API
CursorRequest(s) == "cursor_req_id" \in DOMAIN metadata'[s]

\* C31: the two counters. After every request handler the count of the filtered
\* requests pending is in 0..9. A Cursor request that is hidden adds one to it,
\* and the tenth one logs the summary of the 10 and resets it to 0; a Cursor
\* request that is shown resets it to 0, the summary of the pending ones coming
\* before the details of the request. The count of the requests grows by one
\* with each Cursor API request; a request to another host changes neither.
C31_Counters ==
    /\ [](addon.filtered_count \in 0..9)
    /\ [][\A s \in Streams : RequestStep(s) =>
            IF ~CursorRequest(s)
            THEN /\ addon'.request_count = addon.request_count
                 /\ addon'.filtered_count = addon.filtered_count
                 /\ printed' = <<>>
            ELSE /\ addon'.request_count = addon.request_count + 1
                 /\ metadata'[s]["cursor_req_id"] = addon'.request_count
                 /\ IF metadata'[s]["cursor_show"]
                    THEN /\ addon'.filtered_count = 0
                         /\ IF addon.filtered_count = 0
                            THEN Summaries(printed') = {}
                            ELSE \E i \in Summaries(printed') :
                                    /\ Summaries(printed') = {i}
                                    /\ printed'[i].n = addon.filtered_count
                                    /\ \A j \in RequestLines(printed') : i < j
                         /\ RequestLines(printed') # {}
                    ELSE IF addon.filtered_count = 9
                    THEN /\ addon'.filtered_count = 0
                         /\ \E i \in Summaries(printed') :
                                /\ Summaries(printed') = {i}
                                /\ printed'[i].n = 10
                         /\ RequestLines(printed') = {}
                    ELSE /\ addon'.filtered_count = addon.filtered_count + 1
                         /\ Summaries(printed') = {}
                         /\ RequestLines(printed') = {}]_vars

\* ten requests hidden one after the other: the tenth has logged the summary of
\* the 10 and the count is 0 again
C31_Witness ==
    /\ addon.request_count = 10
    /\ addon.filtered_count = 0
    /\ printed = <<Line("summary", 10)>>
    /\ phase["s1"] = "headers"

\* a request shown after hidden ones: their summary comes first
C31_WitnessShown ==
    /\ addon.filtered_count = 0
    /\ Len(printed) >= 2
    /\ printed[1] = Line("summary", 3) /\ printed[2] = Line("request", 4)

=============================================================================
